---- MODULE Spec2Model ----
(***************************************************************************)
(* Verification model of the multi-sensor patch-extraction pipeline        *)
(* (extract_patches_alldatasets.py): label mapping and remapping, strict   *)
(* majority filter, abundance maps, stratified selection and split, and    *)
(* patch extraction.  Each part of the pipeline has its own specification  *)
(* over its own group of variables; the groups a specification does not    *)
(* use stay at their idle value.                                           *)
(***************************************************************************)
EXTENDS Integers, Sequences, FiniteSets, TLC

VARIABLES
    \* ---- split sizes (select_and_split_patches_stratified, lines 448-460)
    n_patches,      \* len(selected_patches) of the class being split
    split,          \* [n_train, n_val, n_test] once computed
    split_pc,       \* "start" | "done" | "idle"
    \* ---- label mapping and remapping (main steps 1-2)
    data,               \* the original ground-truth raster
    scan_batch_size,    \* batch_size of scan_original_classes
    original_classes,   \* result of scan_original_classes
    call_order,         \* the same classes as a later caller lists them
    label_mapping,      \* result of create_alberta_label_mapping
    label_mapping_again,\* result of a second call on call_order
    remapped_data,      \* the raster remap_ground_truth writes
    map_pc,             \* "start" | "scanned" | "mapped" | "remapped" | "idle"
    \* ---- strict majority filter (main step 3)
    lc_array,           \* the remapped raster LC_remapped.tif
    filter_batch_size,  \* batch_size of apply_strict_majority_filter_batched
    filtered_whole,     \* apply_strict_majority_filter_numba on the whole raster
    whole_done,         \* whether filtered_whole has been computed
    filtered_out,       \* LC_filtered.tif as written so far
    writes,             \* how often each pixel of LC_filtered.tif was written
    filter_k,           \* number of batches processed
    filter_pc,          \* "batches" | "done" | "idle"
    \* ---- abundance maps (main step 4)
    lc_filtered,        \* the filtered raster LC_filtered.tif
    ab_window_size,     \* window_size of create_abundance_maps_batched
    ab_overlap,         \* overlap
    ab_batch_size,      \* batch_size
    ab_classes,         \* the sorted class list of line 323
    ab_file,            \* class -> "absent" | "created" | "written"
    ab_map,             \* class -> content of class_<id>_abundance.tif
    ab_created_in,      \* class -> the run that created the file, 0 for none
    ab_run,             \* the number of the current call
    full_abundance,     \* the grid accumulated for the current class
    ab_class_idx,       \* position of the class loop in ab_classes
    ab_k,               \* number of batches processed for the current class
    ab_pc,              \* "scan" | "class" | "batches" | "write" | "done" | "error" | "idle"
    \* ---- patch selection (main step 5)
    sel_lc_rows,        \* lc_rows, lc_cols: the size of the filtered raster
    sel_lc_cols,
    sel_window_size,    \* window_size
    sel_stride,         \* stride
    sel_min_patches,    \* min_patches_per_class
    sel_classes,        \* classes
    sel_abundance,      \* class -> content of class_<id>_abundance.tif
    all_splits,         \* split name -> class -> list of (i, j)
    all_patches,        \* the sorted candidate list of the last class handled
    selected_patches,   \* its selected_patches after the shuffle
    ds_open,            \* whether its abundance file could be opened
    sel_idx,            \* position of the class loop in sel_classes
    sel_pc,             \* "classes" | "done" | "idle"
    \* ---- verification and extraction of one split (main steps 0 and 6)
    ref_raster,         \* size and geotransform of the ground truth
    sensor_paths,       \* sensor name -> what its stacked raster file holds
    sensor_info,        \* names of the verified sensors, in dict order
    gt_warnings,        \* sensors verified with a geotransform warning
    ex_window_size,     \* window_size
    ex_stride,          \* stride
    patch_locations,    \* all_splits[split_name]: class -> list of (i, j)
    image_patches,      \* the files <split>/<sensor>/img/class_X_patch_Y.tif
    label_patches,      \* the files <split>/labels/<kind>/class_X_patch_Y.tif
    sensor_extracted_counts, \* sensor name -> extracted
    total_extracted,    \* the counter of extract_patches_for_sensor
    extract_errors,     \* the patches line 593 reported: (sensor, class, index)
    manifest,           \* what create_manifest_file wrote
    ex_sensor,          \* position of the sensor loop
    ex_pos,             \* position of the patch loop
    ex_pc,              \* "verify" | "sensor" | "patches" | "labels" | "manifest"
                        \* | "done" | "error" | "idle"
    \* ---- the stages of main and the files they leave in output_dir
    disk,               \* file name -> [status, run]: what is on disk, and
                        \* the run that created it
    run,                \* the number of the current run of the script
    main_pc,            \* the stage main is at, or how the run ended
    stage_log,          \* the stages the current run has begun, in order
    main_classes,       \* classes returned by create_abundance_maps_batched
    main_class_idx,     \* position of its class loop
    \* ---- clipping of the mosaics (clip_*_02.py, clip_Landsat8_30m_GT.py)
    clip_script,        \* "ground_truth" | "landsat8" | "sentinel2" | "alphaearth"
    clip_mode,          \* the choice typed at the prompt: 1 or 2
    clip_mosaics,       \* the bands whose input mosaic is on disk
    clip_todo,          \* the bands or files the loop goes through
    clip_idx,           \* how many of them the loop has handled
    clipped_bands,      \* clipped_bands (clipped_files in mode 2)
    failed_bands,       \* failed_bands (failed_files in mode 2)
    warp_calls,         \* the option sets given to gdal.Warp so far
    clip_outcomes,      \* what happened to each band handled, in order
    clip_returned,      \* "none" | "list" | "True" | "False"
    clip_pc,            \* "loop" | "done" | "idle"
    \* ---- stacking of the clipped bands (stack_clipped_*_03.py)
    stack_script,       \* "landsat8" | "sentinel2" | "alphaearth"
    stack_clipped,      \* the bands whose clipped file is on disk
    stack_idx,          \* how many bands the collecting loop has handled
    band_files,         \* band_files
    missing_bands,      \* missing_bands
    vrt_inputs,         \* the list given to gdal.BuildVRT, <<>> before
    stack_created,      \* the files this call created: "vrt", "output"
    stack_on_disk,      \* which of "vrt", "output" are on disk
    stack_returned,     \* "none" | "True" | "False"
    stack_pc,           \* "collect" | "check" | "vrt" | "translate" | "verify"
                        \* | "done" | "idle"
    \* ---- mosaics of the tiles (merging_tiles_*_01.py)
    mo_script,          \* "landsat8" | "sentinel2" | "alphaearth"
    mo_folders,         \* the bands whose folder is in base_dir
    mo_downloaded,      \* whether the band folders hold tiles at all
    mo_outdir,          \* whether output_dir exists
    mo_vrt,             \* the bands whose temporary VRT is on disk
    mo_mosaic,          \* band -> the run that last wrote its mosaic, 0 for none
    mo_summary,         \* the run that last wrote the summary file, 0 for none
    mo_run,             \* the number of the current run of the script
    mo_bands,           \* bands, the result of get_all_bands
    mo_idx,             \* how many of them the loop has handled
    successful_bands,   \* successful_bands
    mosaic_failed_bands,\* failed_bands of the mosaic script
    mo_passed,          \* the bands given to the mosaic function in this run
    mo_last,            \* what happened to the band handled last
    mo_troubles,        \* how many bands have met trouble so far
    mo_pc,              \* "start" | "bands" | "done" | "returned" | "crashed" | "idle"
    \* ---- two runs of a mosaic script at the same time
    race_sensor,        \* run -> the script it runs
    race_band,          \* run -> the band it is working on
    race_pc,            \* run -> "start" | "built" | "translated" | "done" | "failed"
    race_vrt,           \* VRT path -> the run that wrote the file, 0 when absent
    race_disturbed      \* run -> what the other run did to its VRT before it
                        \* was translated: "no" | "rewritten" | "deleted"

varsSplit == <<n_patches, split, split_pc>>
varsMap == <<data, scan_batch_size, original_classes, call_order,
             label_mapping, label_mapping_again, remapped_data, map_pc>>

varsFilter == <<lc_array, filter_batch_size, filtered_whole, whole_done,
                filtered_out, writes, filter_k, filter_pc>>

varsAbund == <<lc_filtered, ab_window_size, ab_overlap, ab_batch_size, ab_classes,
               ab_file, ab_map, ab_created_in, ab_run, full_abundance, ab_class_idx,
               ab_k, ab_pc>>

varsSelect == <<sel_lc_rows, sel_lc_cols, sel_window_size, sel_stride, sel_min_patches,
                sel_classes, sel_abundance, all_splits, all_patches, selected_patches,
                ds_open, sel_idx, sel_pc>>

varsExtract == <<ref_raster, sensor_paths, sensor_info, gt_warnings, ex_window_size,
                 ex_stride, patch_locations, image_patches, label_patches,
                 sensor_extracted_counts, total_extracted, extract_errors, manifest,
                 ex_sensor, ex_pos, ex_pc>>

varsMain == <<disk, run, main_pc, stage_log, main_classes, main_class_idx>>

varsClip == <<clip_script, clip_mode, clip_mosaics, clip_todo, clip_idx, clipped_bands,
              failed_bands, warp_calls, clip_outcomes, clip_returned, clip_pc>>

varsStack == <<stack_script, stack_clipped, stack_idx, band_files, missing_bands,
               vrt_inputs, stack_created, stack_on_disk, stack_returned, stack_pc>>

varsMosaic == <<mo_script, mo_folders, mo_downloaded, mo_outdir, mo_vrt, mo_mosaic,
                mo_summary, mo_run, mo_bands, mo_idx, successful_bands,
                mosaic_failed_bands, mo_passed, mo_last, mo_troubles, mo_pc>>

varsRace == <<race_sensor, race_band, race_pc, race_vrt, race_disturbed>>

vars == <<varsSplit, varsMap, varsFilter, varsAbund, varsSelect, varsExtract, varsMain,
          varsClip, varsStack, varsMosaic, varsRace>>

(***************************************************************************)
(* Bounds and program constants                                            *)
(***************************************************************************)

\* default of min_patches_per_class: no class ever has more selected patches
DefaultMinPatchesPerClass == 100

BACKGROUND == -99

\* rasters of the mapping specification are at most MaxMapRows x MaxMapCols
MaxMapRows == 2
MaxMapCols == 2
\* scan batches are at most MaxScanBatch pixels wide
MaxScanBatch == 2

\* rasters of the filter specification are MaxFilterDim - 1 or MaxFilterDim
\* pixels high and wide
MaxFilterDim == 10

\* rasters of the abundance specification are at most MaxAbRows x MaxAbCols,
\* windows at most MaxWindow pixels wide and batches at most MaxAbBatch
MaxAbRows == 4
MaxAbCols == 3
MaxWindow == 3
MaxAbBatch == 3

\* rasters of the selection specification are at most MaxSelRows x MaxSelCols,
\* with windows of at most MaxSelWindow pixels, abundance maps made with
\* batches of SelBatchSize pixels and min_patches_per_class at most
\* MaxMinPatches
MaxSelRows == 3
MaxSelCols == 3
MaxSelWindow == 2
SelBatchSize == 2
MaxMinPatches == 3

\* a split of the extraction specification has at most MaxExPatches locations
\* of its first class, the stride is at most MaxExStride, and a pixel is PixelWidth
\* geotransform units wide
MaxExPatches == 2
MaxExStride == 2
PixelWidth == 60000

\* the script is run at most MaxRuns times against one output directory
MaxRuns == 2

\* at most MaxClipFailures bands of one clipping run of the Landsat-8 or the
\* Sentinel-2 tool are in trouble, and at most MaxMissingBands of their
\* clipped bands are missing when the bands are stacked; of the 64 AlphaEarth
\* bands at most one is
MaxClipFailures == 2
MaxMissingBands == 2

\* at most MaxMosaicTroubles bands of the Landsat-8 or Sentinel-2 mosaic
\* script meet trouble over all its runs, and at most one AlphaEarth band
MaxMosaicTroubles == 1

\* the two concurrent runs work on the first MaxRaceBands bands of a script
MaxRaceBands == 2

\* original class codes that occur in the modelled rasters: 0 (unknown),
\* 1 and 15 (two keys of CLASS_DEFINITIONS)
OriginalCodes == {0, 1, 15}

(***************************************************************************)
(* Rasters: a raster is a function [0..rows-1 -> [0..cols-1 -> value]]     *)
(***************************************************************************)
Min(a, b) == IF a < b THEN a ELSE b
Max(a, b) == IF a > b THEN a ELSE b

Rasters(rows, cols, values) == [0..rows-1 -> [0..cols-1 -> values]]
RowsOf(r) == Cardinality(DOMAIN r)
ColsOf(r) == Cardinality(DOMAIN r[0])
EmptyRaster == [i \in {0} |-> [j \in {0} |-> BACKGROUND]]

\* math.ceil(n / batch_size) for positive integers
NumBatches(n, batch_size) == (n + batch_size - 1) \div batch_size

\* band.ReadAsArray(x_start, y_start, x_end - x_start, y_end - y_start)
SubRaster(r, y_start, y_end, x_start, x_end) ==
    [i \in 0..(y_end - y_start - 1) |->
        [j \in 0..(x_end - x_start - 1) |-> r[y_start + i][x_start + j]]]

\* band.WriteArray(block, x_start, y_start)
WriteArray(r, block, x_start, y_start) ==
    [i \in DOMAIN r |-> [j \in DOMAIN r[i] |->
        IF /\ i - y_start \in DOMAIN block
           /\ j - x_start \in DOMAIN block[i - y_start]
        THEN block[i - y_start][j - x_start]
        ELSE r[i][j]]]

\* the values of band.ReadAsArray(x, y, xsize, ysize)
ValuesIn(r, y_start, y_end, x_start, x_end) ==
    {r[i][j] : i \in y_start..(y_end - 1), j \in x_start..(x_end - 1)}

(***************************************************************************)
(* IEEE-754 binary64 arithmetic.  A double is [m2, m1, m0, e]: the 53-bit  *)
(* mantissa m2*2^40 + m1*2^20 + m0 over 2^e.  The product of an integer    *)
(* and a double is formed exactly in 20-bit limbs, rounded to 53 bits      *)
(* (round half to even) and then truncated (int) or rounded up (ceil).     *)
(***************************************************************************)
LimbBase == 2^20

Double_0_7  == [m2 |-> 5734, m1 |-> 419430, m0 |-> 419430, e |-> 53]
Double_0_15 == [m2 |-> 4915, m1 |-> 209715, m0 |-> 209715, e |-> 55]
Double_0_8  == [m2 |-> 6553, m1 |-> 629145, m0 |-> 629146, e |-> 53]

RECURSIVE BitLen(_)
BitLen(x) == IF x = 0 THEN 0 ELSE 1 + BitLen(x \div 2)

\* n * r rounded to the nearest double: the limbs <<p2, l1, l0>> of the
\* rounded product's numerator over 2^r.e
RoundedProduct(n, r) ==
    LET p0 == n * r.m0
        l0 == p0 % LimbBase
        p1 == n * r.m1 + p0 \div LimbBase
        l1 == p1 % LimbBase
        p2 == n * r.m2 + p1 \div LimbBase
        s  == IF BitLen(p2) > 13 THEN BitLen(p2) - 13 ELSE 0
        rem == l0 % (2^s)
        qodd == (l0 \div (2^s)) % 2 = 1
        up == s >= 1 /\ (rem > 2^(s-1) \/ (rem = 2^(s-1) /\ qodd))
        l0r == l0 - rem + (IF up THEN 2^s ELSE 0)
        l1r == l1 + l0r \div LimbBase
    IN  <<p2 + l1r \div LimbBase, l1r % LimbBase, l0r % LimbBase>>

\* int(n * r)
IntOfProduct(n, r) == RoundedProduct(n, r)[1] \div (2^(r.e - 40))

\* math.ceil(n * r)
CeilOfProduct(n, r) ==
    LET p == RoundedProduct(n, r)
        frac == (p[1] % (2^(r.e - 40)) # 0) \/ p[2] # 0 \/ p[3] # 0
    IN  IntOfProduct(n, r) + (IF frac THEN 1 ELSE 0)

(***************************************************************************)
(* Split sizes: lines 448-460 of select_and_split_patches_stratified       *)
(***************************************************************************)

\* the split without the second corrective rule (lines 458-460 missing)
SplitSizesNoValRule(n, train_ratio, val_ratio) ==
    LET t0 == IntOfProduct(n, train_ratio)
        v0 == IntOfProduct(n, val_ratio)
        e0 == n - t0 - v0
        fixTest == e0 = 0 /\ n >= 3
    IN  [n_train |-> IF fixTest THEN t0 - 1 ELSE t0,
         n_val   |-> v0,
         n_test  |-> IF fixTest THEN 1 ELSE e0]

SplitSizes(n, train_ratio, val_ratio) ==
    LET t0 == IntOfProduct(n, train_ratio)
        v0 == IntOfProduct(n, val_ratio)
        e0 == n - t0 - v0
        fixTest == e0 = 0 /\ n >= 3
        t1 == IF fixTest THEN t0 - 1 ELSE t0
        e1 == IF fixTest THEN 1 ELSE e0
        fixVal == v0 = 0 /\ n >= 2
    IN  [n_train |-> IF fixVal THEN t1 - 1 ELSE t1,
         n_val   |-> IF fixVal THEN 1 ELSE v0,
         n_test  |-> e1]

NoSplit == [n_train |-> 0, n_val |-> 0, n_test |-> 0]

(***************************************************************************)
(* Idle values: the groups of variables a specification leaves alone       *)
(***************************************************************************)
NoMapping == [original_to_new |-> <<>>, new_to_original |-> <<>>,
              new_class_definitions |-> <<>>, alberta_classes_sorted |-> <<>>,
              keys |-> <<>>]

IdleSplit == n_patches = 0 /\ split = NoSplit /\ split_pc = "idle"

IdleMap ==
    /\ data = EmptyRaster /\ scan_batch_size = 0
    /\ original_classes = <<>> /\ call_order = <<>>
    /\ label_mapping = NoMapping /\ label_mapping_again = NoMapping
    /\ remapped_data = EmptyRaster /\ map_pc = "idle"

IdleFilter ==
    /\ lc_array = EmptyRaster /\ filter_batch_size = 0
    /\ filtered_whole = EmptyRaster /\ whole_done = FALSE
    /\ filtered_out = EmptyRaster /\ writes = EmptyRaster
    /\ filter_k = 0 /\ filter_pc = "idle"

IdleAbund ==
    /\ lc_filtered = EmptyRaster /\ ab_window_size = 0 /\ ab_overlap = 0
    /\ ab_batch_size = 0 /\ ab_classes = <<>> /\ ab_file = <<>> /\ ab_map = <<>>
    /\ ab_created_in = <<>> /\ ab_run = 0
    /\ full_abundance = EmptyRaster /\ ab_class_idx = 0 /\ ab_k = 0
    /\ ab_pc = "idle"

NoSplits == [train |-> <<>>, val |-> <<>>, test |-> <<>>]

IdleSelect ==
    /\ sel_lc_rows = 0 /\ sel_lc_cols = 0 /\ sel_window_size = 0 /\ sel_stride = 0
    /\ sel_min_patches = 0 /\ sel_classes = <<>> /\ sel_abundance = <<>>
    /\ all_splits = NoSplits /\ all_patches = <<>> /\ selected_patches = <<>>
    /\ ds_open = FALSE /\ sel_idx = 0 /\ sel_pc = "idle"

NoManifest == [written |-> FALSE, sensor_counts |-> <<>>, total_labels |-> 0]

IdleExtract ==
    /\ ref_raster = <<>> /\ sensor_paths = <<>> /\ sensor_info = <<>> /\ gt_warnings = {}
    /\ ex_window_size = 0 /\ ex_stride = 0 /\ patch_locations = <<>>
    /\ image_patches = {} /\ label_patches = {} /\ sensor_extracted_counts = <<>>
    /\ total_extracted = 0 /\ extract_errors = {} /\ manifest = NoManifest
    /\ ex_sensor = 0 /\ ex_pos = 0 /\ ex_pc = "idle"

IdleMain ==
    /\ disk = <<>> /\ run = 0 /\ main_pc = "idle" /\ stage_log = <<>>
    /\ main_classes = <<>> /\ main_class_idx = 0

IdleClip ==
    /\ clip_script = "" /\ clip_mode = 0 /\ clip_mosaics = {} /\ clip_todo = <<>>
    /\ clip_idx = 0 /\ clipped_bands = <<>> /\ failed_bands = <<>> /\ warp_calls = {}
    /\ clip_outcomes = <<>> /\ clip_returned = "none" /\ clip_pc = "idle"

IdleStack ==
    /\ stack_script = "" /\ stack_clipped = {} /\ stack_idx = 0 /\ band_files = <<>>
    /\ missing_bands = <<>> /\ vrt_inputs = <<>> /\ stack_created = {}
    /\ stack_on_disk = {} /\ stack_returned = "none" /\ stack_pc = "idle"

NoBand == [band |-> "", verified |-> FALSE, exit |-> "none"]

IdleMosaic ==
    /\ mo_script = "" /\ mo_folders = {} /\ mo_downloaded = FALSE /\ mo_outdir = FALSE
    /\ mo_vrt = {} /\ mo_mosaic = <<>> /\ mo_summary = 0 /\ mo_run = 0
    /\ mo_bands = <<>> /\ mo_idx = 0 /\ successful_bands = <<>>
    /\ mosaic_failed_bands = <<>> /\ mo_passed = <<>> /\ mo_last = NoBand
    /\ mo_troubles = 0 /\ mo_pc = "idle"

IdleRace ==
    /\ race_sensor = <<>> /\ race_band = <<>> /\ race_pc = <<>>
    /\ race_vrt = <<>> /\ race_disturbed = <<>>

IdleExcept(g) ==
    /\ IF g = "split" THEN TRUE ELSE IdleSplit
    /\ IF g = "map" THEN TRUE ELSE IdleMap
    /\ IF g = "filter" THEN TRUE ELSE IdleFilter
    /\ IF g = "abund" THEN TRUE ELSE IdleAbund
    /\ IF g = "select" THEN TRUE ELSE IdleSelect
    /\ IF g = "extract" THEN TRUE ELSE IdleExtract
    /\ IF g = "main" THEN TRUE ELSE IdleMain
    /\ IF g = "clip" THEN TRUE ELSE IdleClip
    /\ IF g = "stack" THEN TRUE ELSE IdleStack
    /\ IF g = "mosaic" THEN TRUE ELSE IdleMosaic
    /\ IF g = "race" THEN TRUE ELSE IdleRace

UnchangedExcept(g) ==
    /\ IF g = "split" THEN TRUE ELSE UNCHANGED varsSplit
    /\ IF g = "map" THEN TRUE ELSE UNCHANGED varsMap
    /\ IF g = "filter" THEN TRUE ELSE UNCHANGED varsFilter
    /\ IF g = "abund" THEN TRUE ELSE UNCHANGED varsAbund
    /\ IF g = "select" THEN TRUE ELSE UNCHANGED varsSelect
    /\ IF g = "extract" THEN TRUE ELSE UNCHANGED varsExtract
    /\ IF g = "main" THEN TRUE ELSE UNCHANGED varsMain
    /\ IF g = "clip" THEN TRUE ELSE UNCHANGED varsClip
    /\ IF g = "stack" THEN TRUE ELSE UNCHANGED varsStack
    /\ IF g = "mosaic" THEN TRUE ELSE UNCHANGED varsMosaic
    /\ IF g = "race" THEN TRUE ELSE UNCHANGED varsRace

InitSplit ==
    /\ n_patches \in 1..DefaultMinPatchesPerClass
    /\ split = NoSplit
    /\ split_pc = "start"
    /\ IdleExcept("split")

\* lines 449-460 with the default ratios of main (lines 872-873)
ComputeSplit ==
    /\ split_pc = "start"
    /\ split' = SplitSizes(n_patches, Double_0_7, Double_0_15)
    /\ split_pc' = "done"
    /\ UNCHANGED n_patches
    /\ UnchangedExcept("split")

NextSplit == ComputeSplit

SpecSplit == InitSplit /\ [][NextSplit]_vars

\* what the split sizes are when the products are taken exactly
ExactSizes(n) ==
    LET t0 == (7 * n) \div 10
        v0 == (15 * n) \div 100
        e0 == n - t0 - v0
        fixTest == e0 = 0 /\ n >= 3
        t1 == IF fixTest THEN t0 - 1 ELSE t0
        e1 == IF fixTest THEN 1 ELSE e0
        fixVal == v0 = 0 /\ n >= 2
    IN  [n_train |-> IF fixVal THEN t1 - 1 ELSE t1,
         n_val   |-> IF fixVal THEN 1 ELSE v0,
         n_test  |-> e1]

\* C9: for 1 <= n <= 100 and the default ratios the split sizes are
\* floor(0.7n), floor(0.15n) and the rest, corrected by the two rules; they
\* are never negative, sum to n, n = 100 gives 70/15/15 and n = 2 gives
\* validation = 1 and test = 1.
C9_SplitSizesAreFloors ==
    split_pc = "done" =>
        /\ split = ExactSizes(n_patches)
        /\ split.n_train >= 0 /\ split.n_val >= 0 /\ split.n_test >= 0
        /\ split.n_train + split.n_val + split.n_test = n_patches
        /\ (n_patches = 100 =>
               split = [n_train |-> 70, n_val |-> 15, n_test |-> 15])
        /\ (n_patches = 2 => split.n_val = 1 /\ split.n_test = 1)

\* C10: with the default ratios every split receives at least one patch
\* whenever the class has at least 3 selected patches, and validation and
\* test both receive at least one whenever it has at least 2.
C10_EverySplitNonEmpty ==
    split_pc = "done" =>
        /\ (n_patches >= 3 =>
               split.n_train >= 1 /\ split.n_val >= 1 /\ split.n_test >= 1)
        /\ (n_patches >= 2 => split.n_val >= 1 /\ split.n_test >= 1)

\* a class of 3 patches split 1/1/1 by the second corrective rule
C10_Witness ==
    /\ split_pc = "done"
    /\ n_patches = 3
    /\ split = [n_train |-> 1, n_val |-> 1, n_test |-> 1]

(***************************************************************************)
(* Label mapping and remapping: scan_original_classes,                     *)
(* create_alberta_label_mapping, remap_ground_truth                        *)
(***************************************************************************)

\* sorted(xs) for a sequence of distinct integers
RECURSIVE SortedSeqOf(_)
SortedSeqOf(S) ==
    IF S = {} THEN <<>>
    ELSE LET m == CHOOSE x \in S : \A y \in S : x <= y
         IN  <<m>> \o SortedSeqOf(S \ {m})

SeqRange(xs) == {xs[k] : k \in DOMAIN xs}
Sorted(xs) == SortedSeqOf(SeqRange(xs))

\* the orders in which the elements of S can be listed
Orders(S) == {f \in [1..Cardinality(S) -> S] : \A a, b \in DOMAIN f : f[a] = f[b] => a = b}

\* the set `classes` after the batch loop of lines 758-769
RECURSIVE ScanBatches(_, _, _, _, _)
ScanBatches(r, rows, cols, batch_size, k) ==
    IF k = NumBatches(rows, batch_size) * NumBatches(cols, batch_size) THEN {}
    ELSE LET batch_y == k \div NumBatches(cols, batch_size)
             batch_x == k % NumBatches(cols, batch_size)
             y_start == batch_y * batch_size
             y_end == Min((batch_y + 1) * batch_size, rows)
             x_start == batch_x * batch_size
             x_end == Min((batch_x + 1) * batch_size, cols)
         IN  ValuesIn(r, y_start, y_end, x_start, x_end)
                 \cup ScanBatches(r, rows, cols, batch_size, k + 1)

\* scan_original_classes: the sorted list of the non-zero values
ScanOriginalClasses(r, batch_size) ==
    SortedSeqOf(ScanBatches(r, RowsOf(r), ColsOf(r), batch_size, 0) \ {0})

\* the mapping built by enumerating the classes in the order given (the
\* sorted() of line 36 left out)
BuildMapping(alberta_classes_sorted) ==
    LET n == Len(alberta_classes_sorted)
        C == SeqRange(alberta_classes_sorted)
        \* last assignment to a key wins, as in a dict
        lastIndex(c) == CHOOSE k \in 1..n :
                            /\ alberta_classes_sorted[k] = c
                            /\ \A l \in (k+1)..n : alberta_classes_sorted[l] # c
    IN  [original_to_new |->
             [c \in {0} \cup C |-> IF c \in C THEN lastIndex(c) - 1 ELSE BACKGROUND],
         new_to_original |->
             [l \in 0..(n - 1) |-> alberta_classes_sorted[l + 1]],
         new_class_definitions |->
             [l \in {BACKGROUND} \cup 0..(n - 1) |->
                 [original_id |-> IF l = BACKGROUND THEN 0
                                  ELSE alberta_classes_sorted[l + 1]]],
         alberta_classes_sorted |-> alberta_classes_sorted,
         \* insertion order of original_to_new
         keys |-> <<0>> \o alberta_classes_sorted]

create_alberta_label_mapping_unsorted(alberta_classes) == BuildMapping(alberta_classes)

create_alberta_label_mapping(alberta_classes) == BuildMapping(Sorted(alberta_classes))

\* one pass of the loop of lines 95-96 comparing the output buffer instead
\* of the input
RemapEntryInPlace(remapped, input, original_class, new_label) ==
    [i \in DOMAIN input |-> [j \in DOMAIN input[i] |->
        IF remapped[i][j] = original_class THEN new_label ELSE remapped[i][j]]]

\* line 96: remapped_data[data == original_class] = new_label
RemapEntry(remapped, input, original_class, new_label) ==
    [i \in DOMAIN input |-> [j \in DOMAIN input[i] |->
        IF input[i][j] = original_class THEN new_label ELSE remapped[i][j]]]

\* lines 92-96 with the items of the mapping taken in the order `keys`
RECURSIVE RemapFrom(_, _, _, _, _)
RemapFrom(remapped, input, original_to_new, keys, k) ==
    IF k > Len(keys) THEN remapped
    ELSE RemapFrom(RemapEntry(remapped, input, keys[k], original_to_new[keys[k]]),
                   input, original_to_new, keys, k + 1)

Remap(input, original_to_new, keys) ==
    RemapFrom([i \in DOMAIN input |-> [j \in DOMAIN input[i] |-> BACKGROUND]],
              input, original_to_new, keys, 1)

InitMap ==
    /\ \E rows \in 1..MaxMapRows, cols \in 1..MaxMapCols :
           data \in Rasters(rows, cols, OriginalCodes)
    /\ scan_batch_size \in 1..MaxScanBatch
    /\ call_order \in Orders(SeqRange(ScanOriginalClasses(data, 1)))
    /\ original_classes = <<>>
    /\ label_mapping = NoMapping /\ label_mapping_again = NoMapping
    /\ remapped_data = EmptyRaster
    /\ map_pc = "start"
    /\ IdleExcept("map")

\* main line 895
ScanClasses ==
    /\ map_pc = "start"
    /\ original_classes' = ScanOriginalClasses(data, scan_batch_size)
    /\ map_pc' = "scanned"
    /\ UNCHANGED <<data, scan_batch_size, call_order, label_mapping,
                   label_mapping_again, remapped_data>>
    /\ UnchangedExcept("map")

\* main lines 898-899
CreateMapping ==
    /\ map_pc = "scanned"
    /\ label_mapping' = create_alberta_label_mapping(original_classes)
    /\ map_pc' = "mapped"
    /\ UNCHANGED <<data, scan_batch_size, call_order, original_classes,
                   label_mapping_again, remapped_data>>
    /\ UnchangedExcept("map")

\* a second call of create_alberta_label_mapping with the same classes,
\* listed in the order call_order
CreateMappingAgain ==
    /\ map_pc \in {"mapped", "remapped"}
    /\ label_mapping_again = NoMapping
    /\ label_mapping_again' = create_alberta_label_mapping(call_order)
    /\ UNCHANGED <<data, scan_batch_size, call_order, original_classes,
                   label_mapping, remapped_data, map_pc>>
    /\ UnchangedExcept("map")

\* main line 920: remap_ground_truth(landcover_path, lc_remapped_path, original_to_new)
RemapGroundTruth ==
    /\ map_pc = "mapped"
    /\ remapped_data' = Remap(data, label_mapping.original_to_new, label_mapping.keys)
    /\ map_pc' = "remapped"
    /\ UNCHANGED <<data, scan_batch_size, call_order, original_classes,
                   label_mapping, label_mapping_again>>
    /\ UnchangedExcept("map")

NextMap == ScanClasses \/ CreateMapping \/ CreateMappingAgain \/ RemapGroundTruth

SpecMap == InitMap /\ [][NextMap]_vars

\* the non-zero codes of the raster
CodesPresent == {data[i][j] : i \in DOMAIN data, j \in DOMAIN data[0]} \ {0}

\* C6: for a class set C without 0 the mapping sends 0 to -99 and the i-th
\* smallest code of C to i; the new labels are exactly 0..|C|-1,
\* new_to_original inverts the non-background entries, and a second call
\* with the same C returns the same mapping.
C6_MappingIsDenseAndSorted ==
    map_pc \in {"mapped", "remapped"} =>
        LET C == CodesPresent
            o2n == label_mapping.original_to_new
            n2o == label_mapping.new_to_original
        IN  /\ DOMAIN o2n = C \cup {0}
            /\ o2n[0] = BACKGROUND
            /\ \A c \in C : o2n[c] = Cardinality({d \in C : d < c})
            /\ {o2n[c] : c \in C} = 0..(Cardinality(C) - 1)
            /\ DOMAIN n2o = 0..(Cardinality(C) - 1)
            /\ \A c \in C : n2o[o2n[c]] = c
            /\ \A l \in DOMAIN n2o : o2n[n2o[l]] = l
            /\ (label_mapping_again # NoMapping => label_mapping_again = label_mapping)

\* two classes, listed by the second caller in descending order
C6_Witness ==
    /\ map_pc = "mapped"
    /\ label_mapping_again # NoMapping
    /\ call_order = <<15, 1>>
    /\ label_mapping.original_to_new = (0 :> BACKGROUND @@ 1 :> 0 @@ 15 :> 1)

\* C7: after remap_ground_truth every pixel of non-zero code c holds
\* original_to_new[c], every pixel of code 0 holds -99, and the result is
\* the same in whatever order the mapping entries are applied.
C7_RemapIsPixelwise ==
    map_pc = "remapped" =>
        /\ DOMAIN remapped_data = DOMAIN data
        /\ \A i \in DOMAIN data : \A j \in DOMAIN data[i] :
               remapped_data[i][j] =
                   IF data[i][j] = 0 THEN BACKGROUND
                   ELSE label_mapping.original_to_new[data[i][j]]
        /\ \A order \in Orders(DOMAIN label_mapping.original_to_new) :
               Remap(data, label_mapping.original_to_new, order) = remapped_data

\* a raster holding 0, 1 and 15: code 1 becomes label 0 and stays 0
C7_Witness ==
    /\ map_pc = "remapped"
    /\ \E i \in DOMAIN data : \E j \in DOMAIN data[i] :
           data[i][j] = 1 /\ remapped_data[i][j] = 0
    /\ \E i \in DOMAIN data : \E j \in DOMAIN data[i] :
           data[i][j] = 0 /\ remapped_data[i][j] = BACKGROUND
    /\ \E i \in DOMAIN data : \E j \in DOMAIN data[i] :
           data[i][j] = 15 /\ remapped_data[i][j] = 1

(***************************************************************************)
(* Strict majority filter: apply_strict_majority_filter_numba and          *)
(* apply_strict_majority_filter_batched                                    *)
(***************************************************************************)
kernel_size == 9
half_kernel == kernel_size \div 2

\* line 125 with the product truncated instead of rounded up
min_required_truncated(min_homogeneity) ==
    IntOfProduct(kernel_size * kernel_size, min_homogeneity)

\* line 125: math.ceil(kernel_size**2 * min_homogeneity)
min_required(min_homogeneity) ==
    CeilOfProduct(kernel_size * kernel_size, min_homogeneity)

\* lines 134-145: occurrences of the pixel's class in its clipped window
WindowCount(arr, rows, cols, i, j) ==
    LET current_val == arr[i][j]
        y_start == Max(0, i - half_kernel)
        y_end == Min(rows, i + half_kernel + 1)
        x_start == Max(0, j - half_kernel)
        x_end == Min(cols, j + half_kernel + 1)
        width == x_end - x_start
        \* the window's pixels numbered row by row
    IN  Cardinality({q \in 0..((y_end - y_start) * width - 1) :
            /\ arr[y_start + (q \div width)][x_start + (q % width)] = current_val
            /\ arr[y_start + (q \div width)][x_start + (q % width)] # BACKGROUND})

apply_strict_majority_filter_numba(arr, min_homogeneity) ==
    LET rows == RowsOf(arr)
        cols == ColsOf(arr)
        required == min_required(min_homogeneity)
    IN  [i \in 0..(rows - 1) |-> [j \in 0..(cols - 1) |->
            IF arr[i][j] = BACKGROUND THEN BACKGROUND
            ELSE IF WindowCount(arr, rows, cols, i, j) >= required
                 THEN arr[i][j] ELSE BACKGROUND]]

\* the whole filtered batch written in place of its core (lines 214-219 left out)
CoreOfBatchUncropped(filtered_batch, y_start, y_end, x_start, x_end, y_start_read, x_start_read) ==
    SubRaster(filtered_batch, 0, y_end - y_start, 0, x_end - x_start)

\* lines 214-219: the core region of a filtered batch
CoreOfBatch(filtered_batch, y_start, y_end, x_start, x_end, y_start_read, x_start_read) ==
    LET core_y_start == y_start - y_start_read
        core_y_end == core_y_start + (y_end - y_start)
        core_x_start == x_start - x_start_read
        core_x_end == core_x_start + (x_end - x_start)
    IN  SubRaster(filtered_batch, core_y_start, core_y_end, core_x_start, core_x_end)

\* batches read without any overlap
BatchOverlapNone(k) == 0

\* line 174: overlap = kernel_size // 2
BatchOverlap(k) == k \div 2

\* lines 188-219: the block batch (batch_y, batch_x) writes and where
FilteredBatchCore(arr, min_homogeneity, batch_size, batch_y, batch_x) ==
    LET rows == RowsOf(arr)
        cols == ColsOf(arr)
        overlap == BatchOverlap(kernel_size)
        y_start == batch_y * batch_size
        y_end == Min((batch_y + 1) * batch_size, rows)
        x_start == batch_x * batch_size
        x_end == Min((batch_x + 1) * batch_size, cols)
        y_start_read == Max(0, y_start - overlap)
        y_end_read == Min(rows, y_end + overlap)
        x_start_read == Max(0, x_start - overlap)
        x_end_read == Min(cols, x_end + overlap)
        batch_array == SubRaster(arr, y_start_read, y_end_read, x_start_read, x_end_read)
        filtered_batch == apply_strict_majority_filter_numba(batch_array, min_homogeneity)
    IN  [core |-> CoreOfBatch(filtered_batch, y_start, y_end, x_start, x_end,
                              y_start_read, x_start_read),
         x_start |-> x_start, y_start |-> y_start]

\* the input rasters: the first n pixels (row by row) of class 0 and the rest
\* of another value, and the checkerboard of classes 0 and 1
PrefixRaster(rows, cols, n, rest) ==
    [i \in 0..(rows - 1) |-> [j \in 0..(cols - 1) |->
        IF i * cols + j < n THEN 0 ELSE rest]]

Checkerboard(rows, cols) ==
    [i \in 0..(rows - 1) |-> [j \in 0..(cols - 1) |-> (i + j) % 2]]

FilterDims == (MaxFilterDim - 1)..MaxFilterDim
FilterBatchSizes == {MaxFilterDim \div 3, MaxFilterDim \div 2, MaxFilterDim}

FilterInputs ==
    UNION {{PrefixRaster(rows, cols, n, rest) :
                n \in 0..(rows * cols), rest \in {BACKGROUND, 1}}
               \cup {Checkerboard(rows, cols)} :
           rows \in FilterDims, cols \in FilterDims}

ConstantRaster(r, v) == [i \in DOMAIN r |-> [j \in DOMAIN r[i] |-> v]]

InitFilter ==
    /\ lc_array \in FilterInputs
    /\ filter_batch_size \in FilterBatchSizes
    /\ filtered_whole = EmptyRaster /\ whole_done = FALSE
    \* driver.Create and SetNoDataValue(-99): nothing written yet
    /\ filtered_out = ConstantRaster(lc_array, BACKGROUND)
    /\ writes = ConstantRaster(lc_array, 0)
    /\ filter_k = 0
    /\ filter_pc = "batches"
    /\ IdleExcept("filter")

\* one call of apply_strict_majority_filter_numba on the whole raster, for
\* comparison with the batched result
FilterWhole ==
    /\ filter_pc = "done"
    /\ ~whole_done
    /\ \E filtered \in {apply_strict_majority_filter_numba(lc_array, Double_0_8)} :
           filtered_whole' = filtered
    /\ whole_done' = TRUE
    /\ UNCHANGED <<lc_array, filter_batch_size, filtered_out, writes, filter_k, filter_pc>>
    /\ UnchangedExcept("filter")

\* one pass of the batch loop of lines 186-229
FilterBatch ==
    /\ filter_pc = "batches"
    /\ \E num_batches_y \in {NumBatches(RowsOf(lc_array), filter_batch_size)},
          num_batches_x \in {NumBatches(ColsOf(lc_array), filter_batch_size)} :
       \E b \in {FilteredBatchCore(lc_array, Double_0_8, filter_batch_size,
                                   filter_k \div num_batches_x, filter_k % num_batches_x)} :
           /\ filtered_out' = WriteArray(filtered_out, b.core, b.x_start, b.y_start)
           /\ writes' = WriteArray(writes,
                            [i \in DOMAIN b.core |-> [j \in DOMAIN b.core[i] |->
                                writes[b.y_start + i][b.x_start + j] + 1]],
                            b.x_start, b.y_start)
           /\ filter_k' = filter_k + 1
           /\ filter_pc' = IF filter_k + 1 = num_batches_y * num_batches_x
                           THEN "done" ELSE "batches"
    /\ UNCHANGED <<lc_array, filter_batch_size, filtered_whole, whole_done>>
    /\ UnchangedExcept("filter")

NextFilter == FilterWhole \/ FilterBatch

SpecFilter == InitFilter /\ [][NextFilter]_vars

\* pixels of the 9x9 window centred on (i, j) that carry the label of (i, j)
SameLabelNear(arr, i, j) ==
    {p \in ((i - 4)..(i + 4)) \X ((j - 4)..(j + 4)) :
        /\ p[1] \in DOMAIN arr /\ p[2] \in DOMAIN arr[0]
        /\ arr[p[1]][p[2]] = arr[i][j]}

\* C4: apply_strict_majority_filter_numba keeps the label of a
\* non-background pixel iff at least 65 pixels of its clipped 9x9 window
\* carry that label, and otherwise sets it to -99; the centre of a uniform
\* 9x9 block keeps its label and a two-class checkerboard is reset entirely.
C4_KeepsIffSixtyFive ==
    whole_done =>
        /\ \A i \in DOMAIN lc_array : \A j \in DOMAIN lc_array[i] :
               filtered_whole[i][j] =
                   IF /\ lc_array[i][j] # BACKGROUND
                      /\ Cardinality(SameLabelNear(lc_array, i, j)) >= 65
                   THEN lc_array[i][j] ELSE BACKGROUND
        /\ \A i \in DOMAIN lc_array : \A j \in DOMAIN lc_array[i] :
               (/\ lc_array[i][j] # BACKGROUND
                /\ i >= 4 /\ i + 4 < RowsOf(lc_array)
                /\ j >= 4 /\ j + 4 < ColsOf(lc_array)
                /\ Cardinality(SameLabelNear(lc_array, i, j)) = 81)
               => filtered_whole[i][j] = lc_array[i][j]
        /\ lc_array = Checkerboard(RowsOf(lc_array), ColsOf(lc_array))
               => filtered_whole = ConstantRaster(lc_array, BACKGROUND)

\* a 9-column raster whose first 65 pixels are class 0: the centre of the
\* top-left 9x9 window counts exactly 65 and is kept
C4_Witness ==
    /\ whole_done
    /\ ColsOf(lc_array) = 9
    /\ lc_array = PrefixRaster(RowsOf(lc_array), 9, 65, 1)
    /\ filtered_whole[4][4] = 0
    /\ filtered_whole[7][0] = BACKGROUND

\* C5: every pixel that is -99 in the remapped raster is -99 in the output
\* of apply_strict_majority_filter_batched.
C5_BackgroundStaysBackground ==
    filter_pc = "done" =>
        \A i \in DOMAIN lc_array : \A j \in DOMAIN lc_array[i] :
            lc_array[i][j] = BACKGROUND => filtered_out[i][j] = BACKGROUND

\* a raster with kept class pixels above a background region, filtered
\* in several batches
C5_Witness ==
    /\ filter_pc = "done"
    /\ filter_k > 1
    /\ \E i \in DOMAIN lc_array : \E j \in DOMAIN lc_array[i] :
           lc_array[i][j] = BACKGROUND
    /\ \E i \in DOMAIN lc_array : \E j \in DOMAIN lc_array[i] :
           filtered_out[i][j] = 0

(***************************************************************************)
(* Abundance maps: calculate_abundance_batch_numba and                     *)
(* create_abundance_maps_batched                                           *)
(***************************************************************************)

\* lines 289-293
StrideOf(window_size, overlap) == window_size - overlap
OutSizeRoundedUp(n, window_size, stride) ==
    Max(1, ((Max(0, n - window_size) + stride - 1) \div stride) + 1)
OutSize(n, window_size, stride) == Max(1, (Max(0, n - window_size) \div stride) + 1)

\* lines 254-270: np.sum(window == class_id) for cell (i, j) of a batch
BatchCellCount(lc_batch, class_id, window_size, stride, batch_start_y, batch_start_x, i, j) ==
    LET lc_rows == RowsOf(lc_batch)
        lc_cols == ColsOf(lc_batch)
        y_start_orig == i * stride
        x_start_orig == j * stride
        y_end_orig == Min(y_start_orig + window_size, batch_start_y + lc_rows)
        x_end_orig == Min(x_start_orig + window_size, batch_start_x + lc_cols)
        y_start_batch == Max(0, y_start_orig - batch_start_y)
        x_start_batch == Max(0, x_start_orig - batch_start_x)
        y_end_batch == Min(lc_rows, y_end_orig - batch_start_y)
        x_end_batch == Min(lc_cols, x_end_orig - batch_start_x)
    IN  IF y_start_batch < y_end_batch /\ x_start_batch < x_end_batch
        THEN Cardinality({p \in (y_start_batch..(y_end_batch - 1))
                                    \X (x_start_batch..(x_end_batch - 1)) :
                            lc_batch[p[1]][p[2]] = class_id})
        ELSE 0

\* lines 247, 249: start_i = max(0, batch_start_y // stride)
FirstCell(batch_start, window_size, stride) == Max(0, batch_start \div stride)

\* calculate_abundance_batch_numba; a negative dimension makes np.zeros raise
calculate_abundance_batch_numba(lc_batch, class_id, window_size, stride, batch_start_y, batch_start_x, out_rows, out_cols) ==
    LET lc_rows == RowsOf(lc_batch)
        lc_cols == ColsOf(lc_batch)
        start_i == FirstCell(batch_start_y, window_size, stride)
        end_i == Min(out_rows, (batch_start_y + lc_rows) \div stride + 1)
        start_j == FirstCell(batch_start_x, window_size, stride)
        end_j == Min(out_cols, (batch_start_x + lc_cols) \div stride + 1)
    IN  [raised |-> end_i - start_i < 0 \/ end_j - start_j < 0,
         abundance |-> [i \in 0..(end_i - start_i - 1) |-> [j \in 0..(end_j - start_j - 1) |->
             BatchCellCount(lc_batch, class_id, window_size, stride,
                            batch_start_y, batch_start_x, start_i + i, start_j + j)]],
         shape |-> <<end_i - start_i, end_j - start_j>>,
         start_i |-> start_i, start_j |-> start_j]

\* lines 304-323: the classes of the filtered raster, background left out
AbundanceClasses(r, batch_size) ==
    SortedSeqOf(ScanBatches(r, RowsOf(r), ColsOf(r), batch_size, 0) \ {BACKGROUND})

\* lines 347-367: full_abundance after batch (batch_y, batch_x) of a class
AccumulateBatch(full, r, class_id, window_size, stride, batch_size, batch_y, batch_x, out_rows, out_cols) ==
    LET rows == RowsOf(r)
        cols == ColsOf(r)
        y_start == batch_y * batch_size
        y_end == Min((batch_y + 1) * batch_size, rows)
        x_start == batch_x * batch_size
        x_end == Min((batch_x + 1) * batch_size, cols)
        batch_array == SubRaster(r, y_start, y_end, x_start, x_end)
        res == calculate_abundance_batch_numba(batch_array, class_id, window_size, stride,
                                               y_start, x_start, out_rows, out_cols)
        end_i == res.start_i + res.shape[1]
        end_j == res.start_j + res.shape[2]
    IN  IF res.raised THEN [raised |-> TRUE, full |-> full]
        ELSE [raised |-> FALSE,
              full |-> IF end_i <= out_rows /\ end_j <= out_cols
                       THEN [i \in DOMAIN full |-> [j \in DOMAIN full[i] |->
                                IF /\ i >= res.start_i /\ i < end_i
                                   /\ j >= res.start_j /\ j < end_j
                                THEN full[i][j] + res.abundance[i - res.start_i][j - res.start_j]
                                ELSE full[i][j]]]
                       ELSE full]

AbStride == StrideOf(ab_window_size, ab_overlap)
AbOutRows == OutSize(RowsOf(lc_filtered), ab_window_size, AbStride)
AbOutCols == OutSize(ColsOf(lc_filtered), ab_window_size, AbStride)
AbNumBatches ==
    NumBatches(RowsOf(lc_filtered), ab_batch_size) * NumBatches(ColsOf(lc_filtered), ab_batch_size)

\* line 331 without the test
NeverSkipsClass(status) == FALSE

\* line 331: os.path.exists(abundance_path)
SkipsClass(status) == status # "absent"

\* the labels the filtered raster can hold
FilteredLabels == {BACKGROUND, 0, 1}

AbundanceInputs ==
    UNION {{PrefixRaster(rows, cols, n, rest) : n \in 0..(rows * cols), rest \in {BACKGROUND, 1}} :
           rows \in 1..MaxAbRows, cols \in 1..MaxAbCols}

InitAbund ==
    /\ lc_filtered \in AbundanceInputs
    /\ ab_window_size \in 2..MaxWindow
    /\ ab_overlap \in 0..(ab_window_size - 1)
    /\ ab_batch_size \in 1..MaxAbBatch
    /\ ab_classes = <<>>
    /\ ab_file = [c \in FilteredLabels \ {BACKGROUND} |-> "absent"]
    /\ ab_map = [c \in FilteredLabels \ {BACKGROUND} |-> EmptyRaster]
    /\ ab_created_in = [c \in FilteredLabels \ {BACKGROUND} |-> 0]
    /\ ab_run = 1
    /\ full_abundance = EmptyRaster
    /\ ab_class_idx = 0 /\ ab_k = 0
    /\ ab_pc = "scan"
    /\ IdleExcept("abund")

\* lines 302-324: the class scan
AbScanClasses ==
    /\ ab_pc = "scan"
    /\ ab_classes' = AbundanceClasses(lc_filtered, ab_batch_size)
    /\ ab_class_idx' = 1
    /\ ab_pc' = "class"
    /\ UNCHANGED <<lc_filtered, ab_window_size, ab_overlap, ab_batch_size,
                   ab_file, ab_map, full_abundance, ab_k>>
    /\ UNCHANGED <<ab_run, ab_created_in>>
    /\ UnchangedExcept("abund")

\* lines 327-342: the head of the class loop
AbStartClass ==
    /\ ab_pc = "class"
    /\ ab_class_idx <= Len(ab_classes)
    /\ LET class_id == ab_classes[ab_class_idx]
       IN  IF SkipsClass(ab_file[class_id])
           THEN \* line 331: skip if already exists
                /\ ab_class_idx' = ab_class_idx + 1
                /\ UNCHANGED <<ab_file, ab_created_in, full_abundance, ab_k, ab_pc>>
           ELSE \* lines 334-342: driver.Create and np.zeros
                /\ ab_file' = [ab_file EXCEPT ![class_id] = "created"]
                /\ ab_created_in' = [ab_created_in EXCEPT ![class_id] = ab_run]
                /\ full_abundance' = [i \in 0..(AbOutRows - 1) |->
                                         [j \in 0..(AbOutCols - 1) |-> 0]]
                /\ ab_k' = 0
                /\ ab_pc' = "batches"
                /\ UNCHANGED ab_class_idx
    /\ UNCHANGED <<lc_filtered, ab_window_size, ab_overlap, ab_batch_size, ab_classes, ab_map>>
    /\ UNCHANGED ab_run
    /\ UnchangedExcept("abund")

\* lines 345-367: one batch of the current class
AbBatch ==
    /\ ab_pc = "batches"
    /\ \E num_batches_x \in {NumBatches(ColsOf(lc_filtered), ab_batch_size)} :
       \E acc \in {AccumulateBatch(full_abundance, lc_filtered, ab_classes[ab_class_idx],
                                   ab_window_size, AbStride, ab_batch_size,
                                   ab_k \div num_batches_x, ab_k % num_batches_x,
                                   AbOutRows, AbOutCols)} :
           IF acc.raised
           THEN /\ ab_pc' = "error"
                /\ UNCHANGED <<full_abundance, ab_k>>
           ELSE /\ full_abundance' = acc.full
                /\ ab_k' = ab_k + 1
                /\ ab_pc' = IF ab_k + 1 = AbNumBatches THEN "write" ELSE "batches"
    /\ UNCHANGED <<lc_filtered, ab_window_size, ab_overlap, ab_batch_size, ab_classes,
                   ab_file, ab_map, ab_class_idx>>
    /\ UNCHANGED <<ab_run, ab_created_in>>
    /\ UnchangedExcept("abund")

\* lines 369-372: the abundance map is written and the file closed
AbWrite ==
    /\ ab_pc = "write"
    /\ ab_map' = [ab_map EXCEPT ![ab_classes[ab_class_idx]] = full_abundance]
    /\ ab_file' = [ab_file EXCEPT ![ab_classes[ab_class_idx]] = "written"]
    /\ ab_class_idx' = ab_class_idx + 1
    /\ ab_pc' = "class"
    /\ UNCHANGED <<lc_filtered, ab_window_size, ab_overlap, ab_batch_size, ab_classes,
                   full_abundance, ab_k>>
    /\ UNCHANGED <<ab_run, ab_created_in>>
    /\ UnchangedExcept("abund")

\* lines 374-375: the class loop is over
AbReturn ==
    /\ ab_pc = "class"
    /\ ab_class_idx > Len(ab_classes)
    /\ ab_pc' = "done"
    /\ UNCHANGED <<lc_filtered, ab_window_size, ab_overlap, ab_batch_size, ab_classes,
                   ab_file, ab_map, full_abundance, ab_class_idx, ab_k>>
    /\ UNCHANGED <<ab_run, ab_created_in>>
    /\ UnchangedExcept("abund")

\* create_abundance_maps_batched is called again with the same arguments,
\* after it returned or raised
AbCalledAgain ==
    /\ ab_pc \in {"done", "error"}
    /\ ab_run < MaxRuns
    /\ ab_run' = ab_run + 1
    /\ ab_classes' = <<>>
    /\ full_abundance' = EmptyRaster
    /\ ab_class_idx' = 0 /\ ab_k' = 0
    /\ ab_pc' = "scan"
    /\ UNCHANGED <<lc_filtered, ab_window_size, ab_overlap, ab_batch_size,
                   ab_file, ab_map, ab_created_in>>
    /\ UnchangedExcept("abund")

NextAbund ==
    AbScanClasses \/ AbStartClass \/ AbBatch \/ AbWrite \/ AbReturn \/ AbCalledAgain

SpecAbund == InitAbund /\ [][NextAbund]_vars

\* pixels of class c inside the window of cell (i, j), as far as the raster reaches
PixelsInWindow(r, c, window_size, stride, i, j) ==
    {p \in (DOMAIN r) \X (DOMAIN r[0]) :
        /\ p[1] >= i * stride /\ p[1] < i * stride + window_size
        /\ p[2] >= j * stride /\ p[2] < j * stride + window_size
        /\ r[p[1]][p[2]] = c}

\* C3: every cell (i, j) of every class's abundance map holds the number of
\* pixels of that class in the whole window at (i*stride, j*stride),
\* whatever the raster size and the batch size.
C3_AbundanceCountsWholeWindow ==
    \A c \in DOMAIN ab_file :
        ab_file[c] = "written" =>
            \A i \in DOMAIN ab_map[c] : \A j \in DOMAIN ab_map[c][i] :
                ab_map[c][i][j] =
                    Cardinality(PixelsInWindow(lc_filtered, c, ab_window_size, AbStride, i, j))

(***************************************************************************)
(* Patch selection: select_and_split_patches_stratified                    *)
(***************************************************************************)

\* lines 342-370 for one class: the batch loop from batch k on
RECURSIVE AbundanceFrom(_, _, _, _, _, _, _)
AbundanceFrom(full, r, class_id, window_size, stride, batch_size, k) ==
    IF k = NumBatches(RowsOf(r), batch_size) * NumBatches(ColsOf(r), batch_size)
    THEN [raised |-> FALSE, full |-> full]
    ELSE LET num_batches_x == NumBatches(ColsOf(r), batch_size)
             acc == AccumulateBatch(full, r, class_id, window_size, stride, batch_size,
                                    k \div num_batches_x, k % num_batches_x,
                                    OutSize(RowsOf(r), window_size, stride),
                                    OutSize(ColsOf(r), window_size, stride))
         IN  IF acc.raised THEN acc
             ELSE AbundanceFrom(acc.full, r, class_id, window_size, stride, batch_size, k + 1)

\* the abundance map create_abundance_maps_batched writes for a class
AbundanceMapOf(r, class_id, window_size, stride, batch_size) ==
    AbundanceFrom([i \in 0..(OutSize(RowsOf(r), window_size, stride) - 1) |->
                      [j \in 0..(OutSize(ColsOf(r), window_size, stride) - 1) |-> 0]],
                  r, class_id, window_size, stride, batch_size, 0)

\* lines 426-427 without the bounds test
FitsAnywhere(i, j, window_size, stride, lc_rows, lc_cols) == TRUE

\* lines 423-427: the window of cell (i, j) lies inside the raster
FitsInside(i, j, window_size, stride, lc_rows, lc_cols) ==
    /\ i * stride + window_size <= lc_rows
    /\ j * stride + window_size <= lc_cols

\* lines 410-429: (abundance_val, i, j) of the candidates in scan order
CollectPatches(abundance, window_size, stride, lc_rows, lc_cols) ==
    LET rows == RowsOf(abundance)
        cols == ColsOf(abundance)
        cell == [k \in 1..(rows * cols) |->
                    <<abundance[(k - 1) \div cols][(k - 1) % cols],
                      (k - 1) \div cols, (k - 1) % cols>>]
        Valid(t) == /\ t[1] > 0
                    /\ FitsInside(t[2], t[3], window_size, stride, lc_rows, lc_cols)
    IN  SelectSeq(cell, Valid)

RemoveAt(xs, k) == [m \in 1..(Len(xs) - 1) |-> IF m < k THEN xs[m] ELSE xs[m + 1]]

\* line 434: the stable sort by abundance, highest first
RECURSIVE SortByAbundance(_)
SortByAbundance(xs) ==
    IF xs = <<>> THEN <<>>
    ELSE LET k == CHOOSE a \in DOMAIN xs :
                      \A b \in DOMAIN xs :
                          xs[b][1] < xs[a][1] \/ (xs[b][1] = xs[a][1] /\ b >= a)
         IN  <<xs[k]>> \o SortByAbundance(RemoveAt(xs, k))

\* Python's xs[a:b] on a list, with negative indices counted from the end
PyIndex(len, a) == IF a < 0 THEN Max(0, a + len) ELSE Min(a, len)
PySliceInclusive(xs, a, b) ==
    LET lo == PyIndex(Len(xs), a)
        hi == Min(Len(xs), PyIndex(Len(xs), b) + 1)
    IN  [k \in 1..Max(0, hi - lo) |-> xs[lo + k]]
PySlice(xs, a, b) ==
    LET lo == PyIndex(Len(xs), a)
        hi == PyIndex(Len(xs), b)
    IN  [k \in 1..Max(0, hi - lo) |-> xs[lo + k]]

\* lines 462-464
Locations(xs) == [k \in DOMAIN xs |-> <<xs[k][2], xs[k][3]>>]

SelectInputs ==
    UNION {{PrefixRaster(rows, cols, n, rest) : n \in 0..(rows * cols), rest \in {BACKGROUND, 1}} :
           rows \in 1..MaxSelRows, cols \in 1..MaxSelCols}

\* the state in which main calls the selection: the classes and abundance
\* maps are those create_abundance_maps_batched made of the filtered raster
InitSelect ==
    /\ \E r \in SelectInputs, overlap \in 0..(MaxSelWindow - 1) :
        /\ sel_window_size \in 2..MaxSelWindow
        /\ overlap < sel_window_size
        /\ sel_stride = StrideOf(sel_window_size, overlap)
        /\ sel_lc_rows = RowsOf(r)
        /\ sel_lc_cols = ColsOf(r)
        /\ sel_classes = AbundanceClasses(r, SelBatchSize)
        /\ \A c \in SeqRange(sel_classes) :
               ~AbundanceMapOf(r, c, sel_window_size, sel_stride, SelBatchSize).raised
        /\ sel_abundance = [c \in SeqRange(sel_classes) |->
               AbundanceMapOf(r, c, sel_window_size, sel_stride, SelBatchSize).full]
    /\ sel_min_patches \in 1..MaxMinPatches
    /\ all_splits = [train |-> <<>>, val |-> <<>>, test |-> <<>>]
    /\ all_patches = <<>> /\ selected_patches = <<>> /\ ds_open = FALSE
    /\ sel_idx = 1
    /\ sel_pc = "classes"
    /\ IdleExcept("select")

\* all_splits[name][class_id] = patches, lines 398-400, 439-441, 466-468
SetSplits(splits, class_id, train_patches, val_patches, test_patches) ==
    [train |-> [c \in (DOMAIN splits.train) \cup {class_id} |->
                    IF c = class_id THEN train_patches ELSE splits.train[c]],
     val |-> [c \in (DOMAIN splits.val) \cup {class_id} |->
                    IF c = class_id THEN val_patches ELSE splits.val[c]],
     test |-> [c \in (DOMAIN splits.test) \cup {class_id} |->
                    IF c = class_id THEN test_patches ELSE splits.test[c]]]

\* lines 393-470: one iteration of the class loop
SelectClass ==
    /\ sel_pc = "classes"
    /\ sel_idx <= Len(sel_classes)
    /\ \E class_id \in {sel_classes[sel_idx]}, opened \in BOOLEAN :
        /\ ds_open' = opened
        /\ IF ~opened
           THEN \* lines 397-401
                /\ all_splits' = SetSplits(all_splits, class_id, <<>>, <<>>, <<>>)
                /\ all_patches' = <<>>
                /\ selected_patches' = <<>>
           ELSE \E sorted \in {SortByAbundance(CollectPatches(sel_abundance[class_id],
                                   sel_window_size, sel_stride, sel_lc_rows, sel_lc_cols))} :
                \E patches_to_select \in {Min(Len(sorted), sel_min_patches)} :
                    /\ all_patches' = sorted
                    /\ IF patches_to_select = 0
                       THEN \* lines 438-443
                            /\ all_splits' = SetSplits(all_splits, class_id, <<>>, <<>>, <<>>)
                            /\ selected_patches' = <<>>
                       ELSE \* lines 445-468; random.shuffle puts the list in any order
                            \E order \in Orders(1..patches_to_select) :
                            \E shuffled \in {[k \in 1..patches_to_select |-> sorted[order[k]]]} :
                            \E sizes \in {SplitSizes(patches_to_select, Double_0_7, Double_0_15)} :
                                /\ selected_patches' = shuffled
                                /\ all_splits' = SetSplits(all_splits, class_id,
                                       Locations(PySlice(shuffled, 0, sizes.n_train)),
                                       Locations(PySlice(shuffled, sizes.n_train,
                                                         sizes.n_train + sizes.n_val)),
                                       Locations(PySlice(shuffled, sizes.n_train + sizes.n_val,
                                                         patches_to_select)))
    /\ sel_idx' = sel_idx + 1
    /\ UNCHANGED <<sel_lc_rows, sel_lc_cols, sel_window_size, sel_stride, sel_min_patches,
                   sel_classes, sel_abundance, sel_pc>>
    /\ UnchangedExcept("select")

\* line 472
SelectReturn ==
    /\ sel_pc = "classes"
    /\ sel_idx > Len(sel_classes)
    /\ sel_pc' = "done"
    /\ UNCHANGED <<sel_lc_rows, sel_lc_cols, sel_window_size, sel_stride, sel_min_patches,
                   sel_classes, sel_abundance, all_splits, all_patches, selected_patches,
                   ds_open, sel_idx>>
    /\ UnchangedExcept("select")

NextSelect == SelectClass \/ SelectReturn

SpecSelect == InitSelect /\ [][NextSelect]_vars

\* the class the loop handled last, and its candidate cells
LastClass == sel_classes[sel_idx - 1]
Candidates(c) ==
    {p \in (DOMAIN sel_abundance[c]) \X (DOMAIN sel_abundance[c][0]) :
        /\ sel_abundance[c][p[1]][p[2]] > 0
        /\ p[1] * sel_stride + sel_window_size <= sel_lc_rows
        /\ p[2] * sel_stride + sel_window_size <= sel_lc_cols}
SelectedLocations == SeqRange(Locations(selected_patches))

SplitNames == {"train", "val", "test"}
SplitLocations(name) ==
    UNION {SeqRange(all_splits[name][c]) : c \in DOMAIN all_splits[name]}

\* C2: the train, validation and test splits are disjoint: no window
\* location (row index, column index) is assigned to two different splits,
\* also when the location was selected for two different classes.
C2_SplitsAreDisjoint ==
    sel_pc = "done" =>
        \A a, b \in SplitNames :
            a # b => SplitLocations(a) \cap SplitLocations(b) = {}

(***************************************************************************)
(* Sensor verification and patch extraction: verify_sensor_dimensions,     *)
(* extract_patches_multisensor, extract_patches_for_sensor,                *)
(* extract_label_patches, create_manifest_file                             *)
(*                                                                         *)
(* Geotransform coefficients are integers in units of 0.0005, so that the  *)
(* tolerance 0.001 of line 830 is GtTolerance = 2 units.                   *)
(***************************************************************************)

GtTolerance == 2

\* line 860: the keys of sensor_paths in dict order
SensorNames == <<"landsat8", "sentinel2">>

Abs(x) == IF x < 0 THEN -x ELSE x

\* what a sensor's stacked raster can be: aligned with the ground truth,
\* shifted by less than the tolerance, shifted by a pixel, of another size,
\* or not a file gdal can open
SensorKinds == {"aligned", "shifted_slightly", "shifted", "other_size", "unreadable"}

SensorFile(kind, ref) ==
    [opens |-> kind # "unreadable",
     rows |-> IF kind = "other_size" THEN ref.rows + 1 ELSE ref.rows,
     cols |-> ref.cols,
     geotransform |->
         [ref.geotransform EXCEPT ![1] = @ + (CASE kind = "shifted_slightly" -> GtTolerance - 1
                                               [] kind = "shifted" -> PixelWidth
                                               [] OTHER -> 0)]]

\* line 830
gt_match(gt, ref_gt) == \A k \in 1..6 : Abs(gt[k] - ref_gt[k]) < GtTolerance

\* lines 811-847 with a geotransform mismatch treated like a size mismatch
RECURSIVE verify_sensor_dimensions_strict(_, _, _)
verify_sensor_dimensions_strict(paths, ref, k) ==
    IF k > Len(SensorNames) THEN [sensor_info |-> <<>>, warnings |-> {}]
    ELSE LET name == SensorNames[k]
             ds == paths[name]
             rest == verify_sensor_dimensions_strict(paths, ref, k + 1)
         IN  IF ~ds.opens \/ ds.rows # ref.rows \/ ds.cols # ref.cols
                \/ ~gt_match(ds.geotransform, ref.geotransform)
             THEN rest
             ELSE [sensor_info |-> <<name>> \o rest.sensor_info, warnings |-> rest.warnings]

\* lines 811-847: the sensors kept, in dict order, and those warned about
RECURSIVE verify_sensor_dimensions(_, _, _)
verify_sensor_dimensions(paths, ref, k) ==
    IF k > Len(SensorNames) THEN [sensor_info |-> <<>>, warnings |-> {}]
    ELSE LET name == SensorNames[k]
             ds == paths[name]
             rest == verify_sensor_dimensions(paths, ref, k + 1)
         IN  IF ~ds.opens THEN rest
             ELSE IF ds.rows # ref.rows \/ ds.cols # ref.cols THEN rest
             ELSE [sensor_info |-> <<name>> \o rest.sensor_info,
                   warnings |-> IF gt_match(ds.geotransform, ref.geotransform)
                                THEN rest.warnings
                                ELSE {name} \cup rest.warnings]

\* lines 575-580 and 643-648
PatchGeoTransform(gt, x_offset, y_offset) ==
    <<gt[1] + x_offset * gt[2], gt[2], gt[3], gt[4] + y_offset * gt[6], gt[5], gt[6]>>

\* lines 538-543 and 621-626: the patches in the order the loops visit them
RECURSIVE PatchesFrom(_, _)
PatchesFrom(locations, keys) ==
    IF keys = <<>> THEN <<>>
    ELSE [k \in DOMAIN locations[Head(keys)] |->
             [class_id |-> Head(keys), patch_idx |-> k - 1,
              i |-> locations[Head(keys)][k][1], j |-> locations[Head(keys)][k][2]]]
         \o PatchesFrom(locations, Tail(keys))

PatchList == PatchesFrom(patch_locations, SortedSeqOf(DOMAIN patch_locations))

\* lines 543 and 592-594 with a failed read ending the patch loop
NextPatchStopping(pos, last, read_succeeded) == IF read_succeeded THEN pos + 1 ELSE last + 1

\* lines 543 and 592-594: the loop goes on with the next patch, whether the
\* read succeeded or raised
NextPatch(pos, last, read_succeeded) == pos + 1

\* the window locations of a 2 x 2 abundance grid
CoordOrder == <<<<0, 0>>, <<0, 1>>, <<1, 0>>, <<1, 1>>>>

InitExtract ==
    /\ ex_stride \in 1..MaxExStride
    /\ ex_window_size = ex_stride + 1
    /\ ref_raster = [rows |-> ex_stride + ex_window_size, cols |-> ex_stride + ex_window_size,
                     geotransform |-> <<0, PixelWidth, 0, 0, 0, -PixelWidth>>]
    /\ \E kinds \in [SeqRange(SensorNames) -> SensorKinds] :
           sensor_paths = [name \in SeqRange(SensorNames) |-> SensorFile(kinds[name], ref_raster)]
    /\ \E n0 \in 0..MaxExPatches, n1 \in 0..1 :
           patch_locations = (0 :> SubSeq(CoordOrder, 1, n0)) @@ (1 :> SubSeq(CoordOrder, 2, n1 + 1))
    /\ sensor_info = <<>> /\ gt_warnings = {}
    /\ image_patches = {} /\ label_patches = {}
    /\ sensor_extracted_counts = <<>>
    /\ total_extracted = 0
    /\ extract_errors = {}
    /\ manifest = NoManifest
    /\ ex_sensor = 0 /\ ex_pos = 0
    /\ ex_pc = "verify"
    /\ IdleExcept("extract")

\* main step 0, lines 885-889
VerifySensors ==
    /\ ex_pc = "verify"
    /\ \E v \in {verify_sensor_dimensions(sensor_paths, ref_raster, 1)} :
        /\ sensor_info' = v.sensor_info
        /\ gt_warnings' = v.warnings
        /\ ex_pc' = IF v.sensor_info = <<>> THEN "done" ELSE "sensor"
    /\ ex_sensor' = 1
    /\ UNCHANGED <<ref_raster, sensor_paths, ex_window_size, ex_stride, patch_locations,
                   image_patches, label_patches, sensor_extracted_counts, total_extracted,
                   manifest, ex_pos>>
    /\ UNCHANGED extract_errors
    /\ UnchangedExcept("extract")

\* lines 482-499 and 530-536: the head of the sensor loop
StartSensor ==
    /\ ex_pc = "sensor"
    /\ ex_sensor <= Len(sensor_info)
    /\ \E opened \in BOOLEAN, lc_opened \in BOOLEAN :
           IF ~opened
           THEN \* lines 490-492: the sensor is passed over
                /\ lc_opened
                /\ ex_sensor' = ex_sensor + 1
                /\ UNCHANGED <<ex_pc, ex_pos, total_extracted>>
           ELSE IF ~lc_opened
           THEN \* line 534: ValueError
                /\ ex_pc' = "error"
                /\ UNCHANGED <<ex_sensor, ex_pos, total_extracted>>
           ELSE /\ ex_pc' = "patches"
                /\ ex_pos' = 1
                /\ total_extracted' = 0
                /\ UNCHANGED ex_sensor
    /\ UNCHANGED <<ref_raster, sensor_paths, sensor_info, gt_warnings, ex_window_size,
                   ex_stride, patch_locations, image_patches, label_patches,
                   sensor_extracted_counts, manifest>>
    /\ UNCHANGED extract_errors
    /\ UnchangedExcept("extract")

\* lines 543-594: one patch of the current sensor
ExtractSensorPatch ==
    /\ ex_pc = "patches"
    /\ ex_pos <= Len(PatchList)
    /\ \E patch \in {PatchList[ex_pos]}, read_ok \in BOOLEAN :
           IF read_ok
           THEN \E x_offset \in {patch.j * ex_stride}, y_offset \in {patch.i * ex_stride} :
                \E gt \in {sensor_paths[sensor_info[ex_sensor]].geotransform} :
                    /\ image_patches' = image_patches \cup
                           {[sensor |-> sensor_info[ex_sensor],
                             class_id |-> patch.class_id, patch_idx |-> patch.patch_idx,
                             x_offset |-> x_offset, y_offset |-> y_offset,
                             patch_gt |-> PatchGeoTransform(gt, x_offset, y_offset)]}
                    /\ total_extracted' = total_extracted + 1
                    /\ ex_pos' = NextPatch(ex_pos, Len(PatchList), TRUE)
                    /\ UNCHANGED extract_errors
           ELSE \* lines 592-594
                /\ extract_errors' = extract_errors \cup
                       {<<sensor_info[ex_sensor], patch.class_id, patch.patch_idx>>}
                /\ ex_pos' = NextPatch(ex_pos, Len(PatchList), FALSE)
                /\ UNCHANGED <<image_patches, total_extracted>>
    /\ UNCHANGED <<ref_raster, sensor_paths, sensor_info, gt_warnings, ex_window_size,
                   ex_stride, patch_locations, label_patches, sensor_extracted_counts,
                   manifest, ex_sensor, ex_pc>>
    /\ UnchangedExcept("extract")

\* lines 596-597 and 508
FinishSensor ==
    /\ ex_pc = "patches"
    /\ ex_pos > Len(PatchList)
    /\ sensor_extracted_counts' =
           [name \in (DOMAIN sensor_extracted_counts) \cup {sensor_info[ex_sensor]} |->
               IF name = sensor_info[ex_sensor] THEN total_extracted
               ELSE sensor_extracted_counts[name]]
    /\ ex_sensor' = ex_sensor + 1
    /\ ex_pc' = "sensor"
    /\ UNCHANGED <<ref_raster, sensor_paths, sensor_info, gt_warnings, ex_window_size,
                   ex_stride, patch_locations, image_patches, label_patches,
                   total_extracted, manifest, ex_pos>>
    /\ UNCHANGED extract_errors
    /\ UnchangedExcept("extract")

\* lines 512-521 and 606-619
StartLabels ==
    /\ ex_pc = "sensor"
    /\ ex_sensor > Len(sensor_info)
    /\ IF DOMAIN sensor_extracted_counts = {}
       THEN /\ ex_pc' = "manifest"
            /\ UNCHANGED ex_pos
       ELSE \E lc_opened \in BOOLEAN :
            /\ ex_pc' = IF lc_opened THEN "labels" ELSE "error"
            /\ ex_pos' = 1
    /\ UNCHANGED <<ref_raster, sensor_paths, sensor_info, gt_warnings, ex_window_size,
                   ex_stride, patch_locations, image_patches, label_patches,
                   sensor_extracted_counts, total_extracted, manifest, ex_sensor>>
    /\ UNCHANGED extract_errors
    /\ UnchangedExcept("extract")

\* lines 626-665: one label patch, filtered and unfiltered
ExtractLabelPatch ==
    /\ ex_pc = "labels"
    /\ ex_pos <= Len(PatchList)
    /\ \E patch \in {PatchList[ex_pos]}, read_ok \in BOOLEAN :
           IF read_ok
           THEN \E x_offset \in {patch.j * ex_stride}, y_offset \in {patch.i * ex_stride} :
                \E gt \in {ref_raster.geotransform} :
                    label_patches' = label_patches \cup
                        {[kind |-> kind,
                          class_id |-> patch.class_id, patch_idx |-> patch.patch_idx,
                          x_offset |-> x_offset, y_offset |-> y_offset,
                          patch_gt |-> PatchGeoTransform(gt, x_offset, y_offset)] :
                         kind \in {"filtered", "unfiltered"}}
           ELSE \* lines 638-640
                UNCHANGED label_patches
    /\ ex_pos' = ex_pos + 1
    /\ UNCHANGED <<ref_raster, sensor_paths, sensor_info, gt_warnings, ex_window_size,
                   ex_stride, patch_locations, image_patches, sensor_extracted_counts,
                   total_extracted, manifest, ex_sensor, ex_pc>>
    /\ UNCHANGED extract_errors
    /\ UnchangedExcept("extract")

\* line 667
FinishLabels ==
    /\ ex_pc = "labels"
    /\ ex_pos > Len(PatchList)
    /\ ex_pc' = "manifest"
    /\ UNCHANGED <<ref_raster, sensor_paths, sensor_info, gt_warnings, ex_window_size,
                   ex_stride, patch_locations, image_patches, label_patches,
                   sensor_extracted_counts, total_extracted, manifest, ex_sensor, ex_pos>>
    /\ UNCHANGED extract_errors
    /\ UnchangedExcept("extract")

\* lines 985-988 and 715-742
WriteManifest ==
    /\ ex_pc = "manifest"
    /\ manifest' = [written |-> TRUE,
                    sensor_counts |-> sensor_extracted_counts,
                    total_labels |-> Len(PatchList)]
    /\ ex_pc' = "done"
    /\ UNCHANGED <<ref_raster, sensor_paths, sensor_info, gt_warnings, ex_window_size,
                   ex_stride, patch_locations, image_patches, label_patches,
                   sensor_extracted_counts, total_extracted, ex_sensor, ex_pos>>
    /\ UNCHANGED extract_errors
    /\ UnchangedExcept("extract")

NextExtract ==
    \/ VerifySensors \/ StartSensor \/ ExtractSensorPatch \/ FinishSensor
    \/ StartLabels \/ ExtractLabelPatch \/ FinishLabels \/ WriteManifest

SpecExtract == InitExtract /\ [][NextExtract]_vars

\* the patch files of a split, image and label alike
PatchFiles == image_patches \cup label_patches

\* C1: for every patch location (class_id, patch index) of a split, the
\* pixel offset (col_idx*stride, row_idx*stride) and the geotransform origin
\* written into the patch file are the same in every verified sensor's image
\* patch and in the filtered and unfiltered label patch, also for sensors
\* verified with a geotransform warning.
C1_PatchFilesAgree ==
    \A f \in PatchFiles :
        LET loc == patch_locations[f.class_id][f.patch_idx + 1]
        IN  /\ f.x_offset = loc[2] * ex_stride
            /\ f.y_offset = loc[1] * ex_stride
            /\ \A g \in PatchFiles :
                   (g.class_id = f.class_id /\ g.patch_idx = f.patch_idx) =>
                       /\ g.x_offset = f.x_offset /\ g.y_offset = f.y_offset
                       /\ g.patch_gt[1] = f.patch_gt[1] /\ g.patch_gt[4] = f.patch_gt[4]

(***************************************************************************)
(* Further properties of the selection                                     *)
(***************************************************************************)

\* C11: for every class the train, validation and test lists are pairwise
\* disjoint, hold no location twice, and together are exactly the locations
\* selected for the class; a class with no candidate, or whose abundance
\* file cannot be opened, gets three empty lists.
C11_ListsPartitionSelection ==
    sel_idx > 1 =>
        LET c == LastClass
            train_patches == all_splits.train[c]
            val_patches == all_splits.val[c]
            test_patches == all_splits.test[c]
        IN  /\ SeqRange(train_patches) \cap SeqRange(val_patches) = {}
            /\ SeqRange(train_patches) \cap SeqRange(test_patches) = {}
            /\ SeqRange(val_patches) \cap SeqRange(test_patches) = {}
            /\ SeqRange(train_patches) \cup SeqRange(val_patches) \cup SeqRange(test_patches)
                   = SelectedLocations
            /\ Len(train_patches) + Len(val_patches) + Len(test_patches)
                   = Cardinality(SelectedLocations)
            /\ train_patches \o val_patches \o test_patches = Locations(selected_patches)
            /\ ((~ds_open \/ Candidates(c) = {}) =>
                   train_patches = <<>> /\ val_patches = <<>> /\ test_patches = <<>>)
            /\ sel_pc # "error"

\* a class with three selected locations, one in each list
C11_Witness ==
    /\ sel_idx > 1 /\ ds_open
    /\ Len(selected_patches) >= 3
    /\ all_splits.train[LastClass] # <<>>
    /\ all_splits.val[LastClass] # <<>>
    /\ all_splits.test[LastClass] # <<>>

(***************************************************************************)
(* Further properties of the abundance maps                                *)
(***************************************************************************)

\* C12: each abundance map has max(1, (max(0, rows - window) // stride) + 1)
\* rows and the analogous number of columns, with stride = window - overlap;
\* a 1000 x 1000 raster with window 224 and overlap 20 gives a 4 x 4 map; and
\* when the raster is at least one window high and wide, the window of every
\* grid cell lies inside the raster.
C12_MapDimensions ==
    \A c \in DOMAIN ab_file :
        ab_file[c] = "written" =>
            LET rows == RowsOf(lc_filtered)
                cols == ColsOf(lc_filtered)
                window == ab_window_size
                stride == ab_window_size - ab_overlap
                height == (IF rows > window THEN rows - window ELSE 0) \div stride + 1
                width == (IF cols > window THEN cols - window ELSE 0) \div stride + 1
            IN  /\ DOMAIN ab_map[c] = 0..(height - 1)
                /\ \A i \in DOMAIN ab_map[c] : DOMAIN ab_map[c][i] = 0..(width - 1)
                /\ height >= 1 /\ width >= 1
                /\ OutSize(1000, 224, StrideOf(224, 20)) = 4
                /\ (rows >= window /\ cols >= window) =>
                       \A i \in DOMAIN ab_map[c] : \A j \in DOMAIN ab_map[c][i] :
                           /\ i * stride + window <= rows
                           /\ j * stride + window <= cols

\* a written map of several rows and columns
C12_Witness ==
    \E c \in DOMAIN ab_file :
        /\ ab_file[c] = "written"
        /\ RowsOf(ab_map[c]) > 1 /\ ColsOf(ab_map[c]) > 1
        /\ RowsOf(lc_filtered) >= ab_window_size /\ ColsOf(lc_filtered) >= ab_window_size

(***************************************************************************)
(* Further properties of verification and extraction                       *)
(***************************************************************************)

\* the sensors whose raster opens and has the size of the ground truth
SameSizeSensors ==
    {name \in DOMAIN sensor_paths :
        /\ sensor_paths[name].opens
        /\ sensor_paths[name].rows = ref_raster.rows
        /\ sensor_paths[name].cols = ref_raster.cols}

\* C13: a sensor whose raster has another row or column count than the
\* ground truth, or cannot be opened, is not in the verified set and no patch
\* is extracted for it; every other sensor is verified, whatever its
\* geotransform, and the sensor loop of the split reaches each of them.
C13_OnlyMisfitSensorsDropped ==
    ex_pc \notin {"verify", "idle"} =>
        /\ SeqRange(sensor_info) = SameSizeSensors
        /\ Len(sensor_info) = Cardinality(SameSizeSensors)
        /\ \A f \in image_patches : f.sensor \in SameSizeSensors
        /\ DOMAIN sensor_extracted_counts \subseteq SameSizeSensors
        /\ gt_warnings \subseteq SameSizeSensors
        /\ \A name \in SameSizeSensors :
               ~gt_match(sensor_paths[name].geotransform, ref_raster.geotransform)
                   => name \in gt_warnings
        /\ (ex_pc \in {"labels", "manifest"} \/ manifest.written)
               => ex_sensor > Len(sensor_info)

\* one sensor dropped, the other kept with a geotransform warning and a patch
C13_Witness ==
    /\ ex_pc = "done" /\ manifest.written
    /\ \E name \in DOMAIN sensor_paths :
           ~sensor_paths[name].opens \/ sensor_paths[name].rows # ref_raster.rows
    /\ \E name \in gt_warnings : \E f \in image_patches : f.sensor = name

\* the patches of a sensor that were written, reported as failed, or either
WrittenFor(name) ==
    {<<f.class_id, f.patch_idx>> : f \in {g \in image_patches : g.sensor = name}}
FailedFor(name) == {<<e[2], e[3]>> : e \in {d \in extract_errors : d[1] = name}}
PatchKeys(k) == {<<PatchList[m].class_id, PatchList[m].patch_idx>> : m \in 1..k}

\* C14: in extract_patches_for_sensor a patch whose read fails gets no file
\* for that sensor and does not count as extracted, and every later patch of
\* the same and of the following classes is still attempted: each patch the
\* loop has passed is either written or reported, never both, and the count
\* is the number of files written.
C14_FailedReadSkipsOnePatch ==
    /\ \A e \in extract_errors :
           ~\E f \in image_patches :
               f.sensor = e[1] /\ f.class_id = e[2] /\ f.patch_idx = e[3]
    /\ ex_pc = "patches" =>
           LET name == sensor_info[ex_sensor]
           IN  /\ ex_pos <= Len(PatchList) + 1
               /\ WrittenFor(name) \cup FailedFor(name) = PatchKeys(ex_pos - 1)
               /\ total_extracted = Cardinality(WrittenFor(name))
    /\ \A name \in DOMAIN sensor_extracted_counts :
           /\ WrittenFor(name) \cup FailedFor(name) = PatchKeys(Len(PatchList))
           /\ sensor_extracted_counts[name] = Cardinality(WrittenFor(name))

\* a sensor finished with a failed first patch and a later patch of the same
\* class and one of the next class written
C14_Witness ==
    \E name \in DOMAIN sensor_extracted_counts :
        /\ <<0, 0>> \in FailedFor(name)
        /\ <<0, 1>> \in WrittenFor(name)
        /\ <<1, 0>> \in WrittenFor(name)
        /\ sensor_extracted_counts[name] = 2

(***************************************************************************)
(* main of extract_patches_alldatasets.py: the order of its stages and the *)
(* files of output_dir.  A file is "absent", "partial" (created, its       *)
(* content not yet written and flushed) or "complete".  The process can be *)
(* stopped at any point and the script run again.                          *)
(***************************************************************************)

AbundanceFile(c) == IF c = 0 THEN "class_0_abundance.tif" ELSE "class_1_abundance.tif"

OutputFiles ==
    {"label_mapping_metadata.json", "LC_remapped.tif", "LC_filtered.tif",
     "class_0_abundance.tif", "class_1_abundance.tif", "patches",
     "multisensor_dataset_config.json"}

\* os.path.exists
Exists(d, f) == d[f].status # "absent"

Created(d, f, r) == [d EXCEPT ![f] = [status |-> "partial", run |-> r]]
Completed(d, f, r) == [d EXCEPT ![f] = [status |-> "complete", run |-> r]]

\* the stages with filtering and abundance maps exchanged
StageAfterSwapped(stage) ==
    CASE stage = "verify" -> "mapping"
      [] stage = "mapping" -> "remap"
      [] stage = "remap" -> "abundance"
      [] stage = "abundance" -> "filter"
      [] stage = "filter" -> "select"
      [] stage = "select" -> "extract"
      [] stage = "extract" -> "config"
      [] stage = "config" -> "done"

\* lines 883-1080: the stage main goes on with after a stage
StageAfter(stage) ==
    CASE stage = "verify" -> "mapping"
      [] stage = "mapping" -> "remap"
      [] stage = "remap" -> "filter"
      [] stage = "filter" -> "abundance"
      [] stage = "abundance" -> "select"
      [] stage = "select" -> "extract"
      [] stage = "extract" -> "config"
      [] stage = "config" -> "done"

InitMain ==
    /\ disk = [f \in OutputFiles |-> [status |-> "absent", run |-> 0]]
    /\ run = 1
    /\ main_pc = "verify"
    /\ stage_log = <<>>
    /\ main_classes = <<>>
    /\ main_class_idx = 0
    /\ IdleExcept("main")

\* lines 883-889: step 0
MainVerify ==
    /\ main_pc = "verify"
    /\ \E any_sensor \in BOOLEAN :
           main_pc' = IF any_sensor THEN StageAfter("verify") ELSE "returned"
    /\ stage_log' = Append(stage_log, "verify")
    /\ UNCHANGED <<disk, run, main_classes, main_class_idx>>
    /\ UnchangedExcept("main")

\* lines 893-914: step 1; scan_original_classes raises when the ground truth
\* does not open
MainMapping ==
    /\ main_pc = "mapping"
    /\ stage_log' = Append(stage_log, "mapping")
    /\ \E opened \in BOOLEAN :
           IF opened
           THEN /\ disk' = Completed(disk, "label_mapping_metadata.json", run)
                /\ main_pc' = StageAfter("mapping")
           ELSE /\ main_pc' = "crashed"
                /\ UNCHANGED disk
    /\ UNCHANGED <<run, main_classes, main_class_idx>>
    /\ UnchangedExcept("main")

\* lines 916-922 and 77-101: step 2 up to driver.Create
MainRemap ==
    /\ main_pc = "remap"
    /\ stage_log' = Append(stage_log, "remap")
    /\ IF Exists(disk, "LC_remapped.tif")
       THEN /\ main_pc' = StageAfter("remap")
            /\ UNCHANGED disk
       ELSE \E opened \in BOOLEAN :
            IF opened
            THEN /\ disk' = Created(disk, "LC_remapped.tif", run)
                 /\ main_pc' = "remapping"
            ELSE /\ main_pc' = "crashed"
                 /\ UNCHANGED disk
    /\ UNCHANGED <<run, main_classes, main_class_idx>>
    /\ UnchangedExcept("main")

\* lines 105-116: WriteArray, FlushCache and return
MainRemapWritten ==
    /\ main_pc = "remapping"
    /\ disk' = Completed(disk, "LC_remapped.tif", run)
    /\ main_pc' = StageAfter("remap")
    /\ UNCHANGED <<run, stage_log, main_classes, main_class_idx>>
    /\ UnchangedExcept("main")

\* lines 924-931 and 155-170: step 3 up to driver.Create; a remapped file
\* gdal cannot open leaves src_ds None and the next line raises
MainFilter ==
    /\ main_pc = "filter"
    /\ stage_log' = Append(stage_log, "filter")
    /\ IF Exists(disk, "LC_filtered.tif")
       THEN /\ main_pc' = StageAfter("filter")
            /\ UNCHANGED disk
       ELSE \E opened \in BOOLEAN :
            IF opened /\ Exists(disk, "LC_remapped.tif")
            THEN /\ disk' = Created(disk, "LC_filtered.tif", run)
                 /\ main_pc' = "filtering"
            ELSE /\ main_pc' = "crashed"
                 /\ UNCHANGED disk
    /\ UNCHANGED <<run, main_classes, main_class_idx>>
    /\ UnchangedExcept("main")

\* lines 186-238: the batches are written and the file flushed
MainFilterWritten ==
    /\ main_pc = "filtering"
    /\ disk' = Completed(disk, "LC_filtered.tif", run)
    /\ main_pc' = StageAfter("filter")
    /\ UNCHANGED <<run, stage_log, main_classes, main_class_idx>>
    /\ UnchangedExcept("main")

\* lines 933-938 and 279-324: step 4 up to the class loop
MainAbundance ==
    /\ main_pc = "abundance"
    /\ stage_log' = Append(stage_log, "abundance")
    /\ \E opened \in BOOLEAN :
           IF opened /\ Exists(disk, "LC_filtered.tif")
           THEN /\ main_classes' \in {<<>>, <<0>>, <<1>>, <<0, 1>>}
                /\ main_class_idx' = 1
                /\ main_pc' = "abundance_class"
           ELSE /\ main_pc' = "crashed"
                /\ UNCHANGED <<main_classes, main_class_idx>>
    /\ UNCHANGED <<disk, run>>
    /\ UnchangedExcept("main")

\* lines 327-342: the head of the class loop
MainAbundanceClass ==
    /\ main_pc = "abundance_class"
    /\ main_class_idx <= Len(main_classes)
    /\ IF Exists(disk, AbundanceFile(main_classes[main_class_idx]))
       THEN /\ main_class_idx' = main_class_idx + 1
            /\ UNCHANGED <<disk, main_pc>>
       ELSE /\ disk' = Created(disk, AbundanceFile(main_classes[main_class_idx]), run)
            /\ main_pc' = "abundance_batches"
            /\ UNCHANGED main_class_idx
    /\ UNCHANGED <<run, stage_log, main_classes>>
    /\ UnchangedExcept("main")

\* lines 345-372: the batches of a class, which raise on a negative
\* dimension, and the write of its map
MainAbundanceWritten ==
    /\ main_pc = "abundance_batches"
    /\ \E raised \in BOOLEAN :
           IF raised
           THEN /\ main_pc' = "crashed"
                /\ UNCHANGED <<disk, main_class_idx>>
           ELSE /\ disk' = Completed(disk, AbundanceFile(main_classes[main_class_idx]), run)
                /\ main_class_idx' = main_class_idx + 1
                /\ main_pc' = "abundance_class"
    /\ UNCHANGED <<run, stage_log, main_classes>>
    /\ UnchangedExcept("main")

\* lines 374-375: the class loop is over
MainAbundanceReturn ==
    /\ main_pc = "abundance_class"
    /\ main_class_idx > Len(main_classes)
    /\ main_pc' = StageAfter("abundance")
    /\ UNCHANGED <<disk, run, stage_log, main_classes, main_class_idx>>
    /\ UnchangedExcept("main")

\* lines 943-960: step 5
MainSelect ==
    /\ main_pc = "select"
    /\ stage_log' = Append(stage_log, "select")
    /\ main_pc' = StageAfter("select")
    /\ UNCHANGED <<disk, run, main_classes, main_class_idx>>
    /\ UnchangedExcept("main")

\* lines 962-994: step 6; extract_patches_for_sensor raises when a land
\* cover file does not open
MainExtract ==
    /\ main_pc = "extract"
    /\ stage_log' = Append(stage_log, "extract")
    /\ \E opened \in BOOLEAN :
           IF opened
           THEN /\ disk' = Completed(disk, "patches", run)
                /\ main_pc' = StageAfter("extract")
           ELSE /\ disk' = Created(disk, "patches", run)
                /\ main_pc' = "crashed"
    /\ UNCHANGED <<run, main_classes, main_class_idx>>
    /\ UnchangedExcept("main")

\* lines 1050-1080: the dataset configuration file
MainConfig ==
    /\ main_pc = "config"
    /\ stage_log' = Append(stage_log, "config")
    /\ disk' = Completed(disk, "multisensor_dataset_config.json", run)
    /\ main_pc' = StageAfter("config")
    /\ UNCHANGED <<run, main_classes, main_class_idx>>
    /\ UnchangedExcept("main")

Ended == {"done", "returned", "crashed", "killed"}

\* the process is stopped from outside
MainKilled ==
    /\ main_pc \notin Ended \cup {"idle"}
    /\ main_pc' = "killed"
    /\ UNCHANGED <<disk, run, stage_log, main_classes, main_class_idx>>
    /\ UnchangedExcept("main")

\* the script is started again with the same output_dir
MainRunAgain ==
    /\ main_pc \in Ended
    /\ run < MaxRuns
    /\ run' = run + 1
    /\ main_pc' = "verify"
    /\ stage_log' = <<>>
    /\ main_classes' = <<>>
    /\ main_class_idx' = 0
    /\ UNCHANGED disk
    /\ UnchangedExcept("main")

NextMain ==
    \/ MainVerify \/ MainMapping \/ MainRemap \/ MainRemapWritten
    \/ MainFilter \/ MainFilterWritten
    \/ MainAbundance \/ MainAbundanceClass \/ MainAbundanceWritten \/ MainAbundanceReturn
    \/ MainSelect \/ MainExtract \/ MainConfig
    \/ MainKilled \/ MainRunAgain

SpecMain == InitMain /\ [][NextMain]_vars

MainStages == <<"verify", "mapping", "remap", "filter", "abundance", "select", "extract", "config">>
Begun(stage) == stage \in SeqRange(stage_log)

\* C15: the stages of main run in the order remap, filter, abundance maps,
\* selection, extraction, configuration file, and a stage begins only when
\* the output file of the stage before it is on disk: LC_remapped.tif before
\* filtering, LC_filtered.tif before the abundance maps, the abundance file
\* of every class before selection.
C15_StagesInOrder ==
    main_pc # "idle" =>
        /\ stage_log = SubSeq(MainStages, 1, Len(stage_log))
        /\ Begun("filter") => Exists(disk, "LC_remapped.tif")
        /\ Begun("abundance") => Exists(disk, "LC_filtered.tif")
        /\ Begun("select") =>
               \A c \in SeqRange(main_classes) : Exists(disk, AbundanceFile(c))
        /\ Begun("config") => Exists(disk, "patches")

\* a first run that reached the configuration file with two classes
C15_Witness ==
    /\ main_pc = "done" /\ run = 1
    /\ Len(stage_log) = Len(MainStages)
    /\ main_classes = <<0, 1>>

\* C16: a second call of create_abundance_maps_batched against the same
\* output directory leaves every class_<id>_abundance.tif that exists
\* unchanged: it is neither created again nor written.
C16_ExistingMapsUntouched ==
    [][\A c \in DOMAIN ab_file :
           (ab_file[c] # "absent" /\ ab_created_in[c] < ab_run) =>
               /\ ab_file'[c] = ab_file[c]
               /\ ab_map'[c] = ab_map[c]
               /\ ab_created_in'[c] = ab_created_in[c]]_vars

\* the second call has passed over a class whose map the first call wrote
C16_Witness ==
    /\ ab_run = 2 /\ ab_pc = "done"
    /\ \E c \in SeqRange(ab_classes) : ab_file[c] = "written" /\ ab_created_in[c] = 1

(***************************************************************************)
(* Clipping of the mosaics to the Alberta boundary                         *)
(* (clip_Landsat8_30m_GT.py, clip_merged_Landsat8_30m_images_02.py,       *)
(* clip_merged_S2_30m_images_02.py, clip_merged_AlphaEarth_30m_images_02) *)
(***************************************************************************)

ClipScripts == {"ground_truth", "landsat8", "sentinel2", "alphaearth"}

\* alberta_gpkg of each script
alberta_gpkg(script) ==
    IF script = "alphaearth"
    THEN "D:\\Hackathon15_AlphaEarth\\AlphaEarth_Dataset\\Alberta\\Alberta_EPSG_3979.gpkg"
    ELSE "D:\\Hackathon15_AlphaEarth\\AlphaEarth_Dataset\\Alberta_EPSG_3979.gpkg"

\* gdal.WarpOptions of clip_ground_truth
GroundTruthWarpOptions ==
    [format |-> "GTiff",
     cutlineDSName |-> alberta_gpkg("ground_truth"),
     cropToCutline |-> TRUE,
     dstNodata |-> 0,
     resampleAlg |-> "near",
     creationOptions |-> <<"COMPRESS=LZW", "PREDICTOR=2", "TILED=YES", "BLOCKXSIZE=256",
                           "BLOCKYSIZE=256", "BIGTIFF=YES", "NUM_THREADS=ALL_CPUS">>,
     xRes |-> 30,
     yRes |-> 30,
     targetAlignedPixels |-> FALSE]

\* gdal.WarpOptions of clip_individual_bands, Landsat-8
Landsat8BandWarpOptions ==
    [format |-> "GTiff",
     cutlineDSName |-> alberta_gpkg("landsat8"),
     cropToCutline |-> TRUE,
     dstNodata |-> 0,
     resampleAlg |-> "near",
     creationOptions |-> <<"COMPRESS=LZW", "PREDICTOR=2", "TILED=YES", "BLOCKXSIZE=256",
                           "BLOCKYSIZE=256", "BIGTIFF=YES", "NUM_THREADS=ALL_CPUS">>,
     xRes |-> 30,
     yRes |-> 30,
     targetAlignedPixels |-> FALSE]

\* gdal.WarpOptions of batch_clip_all_files, Landsat-8: no resampleAlg
Landsat8BatchWarpOptions ==
    [format |-> "GTiff",
     cutlineDSName |-> alberta_gpkg("landsat8"),
     cropToCutline |-> TRUE,
     dstNodata |-> 0,
     creationOptions |-> <<"COMPRESS=LZW", "PREDICTOR=2", "TILED=YES", "BLOCKXSIZE=256",
                           "BLOCKYSIZE=256", "BIGTIFF=YES", "NUM_THREADS=ALL_CPUS">>,
     xRes |-> 30,
     yRes |-> 30,
     targetAlignedPixels |-> TRUE]

\* gdal.WarpOptions of clip_individual_bands, Sentinel-2
Sentinel2BandWarpOptions ==
    [format |-> "GTiff",
     cutlineDSName |-> alberta_gpkg("sentinel2"),
     cropToCutline |-> TRUE,
     dstNodata |-> 0,
     resampleAlg |-> "near",
     creationOptions |-> <<"COMPRESS=LZW", "PREDICTOR=2", "TILED=YES", "BLOCKXSIZE=256",
                           "BLOCKYSIZE=256", "BIGTIFF=YES", "NUM_THREADS=ALL_CPUS">>,
     xRes |-> 30,
     yRes |-> 30,
     targetAlignedPixels |-> FALSE]

\* gdal.WarpOptions of batch_clip_all_files, Sentinel-2: no resampleAlg
Sentinel2BatchWarpOptions ==
    [format |-> "GTiff",
     cutlineDSName |-> alberta_gpkg("sentinel2"),
     cropToCutline |-> TRUE,
     dstNodata |-> 0,
     creationOptions |-> <<"COMPRESS=LZW", "PREDICTOR=2", "TILED=YES", "BLOCKXSIZE=256",
                           "BLOCKYSIZE=256", "BIGTIFF=YES", "NUM_THREADS=ALL_CPUS">>,
     xRes |-> 30,
     yRes |-> 30,
     targetAlignedPixels |-> FALSE]

\* gdal.WarpOptions of clip_individual_bands, AlphaEarth
AlphaEarthBandWarpOptions ==
    [format |-> "GTiff",
     cutlineDSName |-> alberta_gpkg("alphaearth"),
     cropToCutline |-> TRUE,
     dstNodata |-> 0,
     resampleAlg |-> "near",
     creationOptions |-> <<"COMPRESS=LZW", "PREDICTOR=2", "TILED=YES", "BLOCKXSIZE=256",
                           "BLOCKYSIZE=256", "BIGTIFF=YES", "NUM_THREADS=ALL_CPUS">>,
     xRes |-> 30,
     yRes |-> 30,
     targetAlignedPixels |-> FALSE]

\* gdal.WarpOptions of batch_clip_all_files, AlphaEarth: no resampleAlg
AlphaEarthBatchWarpOptions ==
    [format |-> "GTiff",
     cutlineDSName |-> alberta_gpkg("alphaearth"),
     cropToCutline |-> TRUE,
     dstNodata |-> 0,
     creationOptions |-> <<"COMPRESS=LZW", "PREDICTOR=2", "TILED=YES", "BLOCKXSIZE=256",
                           "BLOCKYSIZE=256", "BIGTIFF=YES", "NUM_THREADS=ALL_CPUS">>,
     xRes |-> 30,
     yRes |-> 30,
     targetAlignedPixels |-> TRUE]

\* a tool that gave every call the options of its batch mode
WarpOptionsOfBatch(script, mode) ==
    CASE script = "ground_truth" -> GroundTruthWarpOptions
      [] script = "landsat8" -> Landsat8BatchWarpOptions
      [] script = "sentinel2" -> Sentinel2BatchWarpOptions
      [] script = "alphaearth" -> AlphaEarthBatchWarpOptions

\* the options the script gives gdal.Warp in the mode chosen at its prompt
WarpOptions(script, mode) ==
    CASE script = "ground_truth" -> GroundTruthWarpOptions
      [] script = "landsat8" /\ mode = 1 -> Landsat8BandWarpOptions
      [] script = "landsat8" /\ mode = 2 -> Landsat8BatchWarpOptions
      [] script = "sentinel2" /\ mode = 1 -> Sentinel2BandWarpOptions
      [] script = "sentinel2" /\ mode = 2 -> Sentinel2BatchWarpOptions
      [] script = "alphaearth" /\ mode = 1 -> AlphaEarthBandWarpOptions
      [] script = "alphaearth" /\ mode = 2 -> AlphaEarthBatchWarpOptions

DecimalDigits == <<"0", "1", "2", "3", "4", "5", "6", "7", "8", "9">>

\* [f'A{i:02d}' for i in range(n)]
AlphaEarthBands(n) ==
    [k \in 1..n |-> "A" \o DecimalDigits[((k - 1) \div 10) + 1] \o DecimalDigits[((k - 1) % 10) + 1]]

alphaearth_bands == AlphaEarthBands(64)

\* landsat_bands, sentinel_bands, alphaearth_bands of the clip scripts; the
\* ground-truth script clips its one input file
ClipBands(script) ==
    CASE script = "ground_truth" -> <<"ground_truth">>
      [] script = "landsat8" -> <<"SR_B2", "SR_B3", "SR_B4", "SR_B5", "SR_B6", "SR_B7">>
      [] script = "sentinel2" -> <<"B2", "B3", "B4", "B5", "B6", "B7", "B8", "B8A", "B11", "B12">>
      [] script = "alphaearth" -> alphaearth_bands

\* how many bands of one run of the script may be in trouble
TroubleBudget(script) == IF script = "alphaearth" THEN 1 ELSE MaxClipFailures

\* the elements of s that are in keep, in the order of s
RECURSIVE SeqFilter(_, _)
SeqFilter(s, keep) ==
    IF s = <<>> THEN <<>>
    ELSE IF Head(s) \in keep THEN <<Head(s)>> \o SeqFilter(Tail(s), keep)
    ELSE SeqFilter(Tail(s), keep)

\* the sets of at most k bands
RECURSIVE UpToBands(_, _)
UpToBands(bands, k) ==
    IF k = 0 THEN {{}}
    ELSE LET fewer == UpToBands(bands, k - 1)
         IN  fewer \cup {m \cup {b} : m \in fewer, b \in SeqRange(bands)}

\* str(e) of an exception raised by gdal
ExceptionMessage == "str(e)"

\* a loop that ended at the first band without input
NextBandStopping(idx, last, found) == IF found THEN idx + 1 ELSE last

\* the band loop goes on to the next band, after `continue` as well
NextBand(idx, last, found) == idx + 1

\* the bands of this run that are in trouble: those without input mosaic and
\* those whose warp or verification has failed
ClipTroubles ==
    (Len(ClipBands(clip_script)) - Cardinality(clip_mosaics))
      + Cardinality({k \in DOMAIN clip_outcomes : clip_outcomes[k] \notin {"ok", "not_found"}})

InitClip ==
    /\ IdleExcept("clip")
    /\ clip_script \in ClipScripts
    /\ clip_mode \in (IF clip_script = "ground_truth" THEN {1} ELSE {1, 2})
    /\ \E missing \in UpToBands(ClipBands(clip_script), TroubleBudget(clip_script)) :
         clip_mosaics = SeqRange(ClipBands(clip_script)) \ missing
    /\ clip_todo = IF clip_mode = 1 THEN ClipBands(clip_script)
                   ELSE SeqFilter(ClipBands(clip_script), clip_mosaics)
    /\ clip_idx = 0
    /\ clipped_bands = <<>>
    /\ failed_bands = <<>>
    /\ warp_calls = {}
    /\ clip_outcomes = <<>>
    /\ clip_returned = "none"
    /\ clip_pc = "loop"

\* clip_ground_truth
ClipGroundTruth ==
    /\ clip_pc = "loop" /\ clip_script = "ground_truth"
    /\ IF "ground_truth" \notin clip_mosaics
       THEN /\ clip_outcomes' = <<"not_found">>
            /\ clip_returned' = "False"
            /\ UNCHANGED warp_calls
       ELSE \E outcome \in {"unreadable", "ok", "no_output", "raised"} :
            /\ clip_outcomes' = <<outcome>>
            /\ warp_calls' = IF outcome = "unreadable" THEN warp_calls
                             ELSE warp_calls \cup {WarpOptions(clip_script, clip_mode)}
            /\ clip_returned' = IF outcome = "ok" THEN "True" ELSE "False"
    /\ clip_idx' = 1
    /\ clip_pc' = "done"
    /\ UNCHANGED <<clip_script, clip_mode, clip_mosaics, clip_todo, clipped_bands, failed_bands>>
    /\ UnchangedExcept("clip")

\* one pass of the band loop of clip_individual_bands
ClipIndividualBand ==
    /\ clip_pc = "loop" /\ clip_script # "ground_truth" /\ clip_mode = 1
    /\ clip_idx < Len(clip_todo)
    /\ \E band \in {clip_todo[clip_idx + 1]} :
         IF band \notin clip_mosaics
         THEN /\ failed_bands' = Append(failed_bands, <<band, "Input file not found">>)
              /\ clip_outcomes' = Append(clip_outcomes, "not_found")
              /\ clip_idx' = NextBand(clip_idx, Len(clip_todo), FALSE)
              /\ UNCHANGED <<clipped_bands, warp_calls>>
         ELSE \E outcome \in {"ok", "no_output", "raised"} :
              /\ outcome = "ok" \/ ClipTroubles < TroubleBudget(clip_script)
              /\ warp_calls' = warp_calls \cup {WarpOptions(clip_script, clip_mode)}
              /\ clip_outcomes' = Append(clip_outcomes, outcome)
              /\ clipped_bands' = IF outcome = "ok" THEN Append(clipped_bands, band)
                                  ELSE clipped_bands
              /\ failed_bands' =
                   CASE outcome = "ok" -> failed_bands
                     [] outcome = "no_output" ->
                          Append(failed_bands, <<band, "Output file creation failed">>)
                     [] outcome = "raised" ->
                          Append(failed_bands, <<band, ExceptionMessage>>)
              /\ clip_idx' = NextBand(clip_idx, Len(clip_todo), TRUE)
    /\ UNCHANGED <<clip_script, clip_mode, clip_mosaics, clip_todo, clip_returned, clip_pc>>
    /\ UnchangedExcept("clip")

\* the summary and return of clip_individual_bands
ClipIndividualReturn ==
    /\ clip_pc = "loop" /\ clip_script # "ground_truth" /\ clip_mode = 1
    /\ clip_idx >= Len(clip_todo)
    /\ clip_returned' = "list"
    /\ clip_pc' = "done"
    /\ UNCHANGED <<clip_script, clip_mode, clip_mosaics, clip_todo, clip_idx, clipped_bands,
                   failed_bands, warp_calls, clip_outcomes>>
    /\ UnchangedExcept("clip")

\* one pass of the file loop of batch_clip_all_files
BatchClipFile ==
    /\ clip_pc = "loop" /\ clip_script # "ground_truth" /\ clip_mode = 2
    /\ clip_idx < Len(clip_todo)
    /\ \E band \in {clip_todo[clip_idx + 1]} :
       \E outcome \in {"ok", "unverified", "no_output", "raised"} :
         /\ outcome = "ok" \/ ClipTroubles < TroubleBudget(clip_script)
         /\ warp_calls' = warp_calls \cup {WarpOptions(clip_script, clip_mode)}
         /\ clip_outcomes' = Append(clip_outcomes, outcome)
         /\ clipped_bands' = IF outcome = "ok" THEN Append(clipped_bands, band)
                             ELSE clipped_bands
         /\ failed_bands' =
              CASE outcome = "ok" -> failed_bands
                [] outcome = "unverified" ->
                     Append(failed_bands, <<band, "Verification failed">>)
                [] outcome = "no_output" ->
                     Append(failed_bands, <<band, "File creation failed">>)
                [] outcome = "raised" ->
                     Append(failed_bands, <<band, ExceptionMessage>>)
    /\ clip_idx' = clip_idx + 1
    /\ UNCHANGED <<clip_script, clip_mode, clip_mosaics, clip_todo, clip_returned, clip_pc>>
    /\ UnchangedExcept("clip")

\* the return of batch_clip_all_files: at once when the glob finds nothing,
\* after the summary otherwise
BatchClipReturn ==
    /\ clip_pc = "loop" /\ clip_script # "ground_truth" /\ clip_mode = 2
    /\ clip_idx = Len(clip_todo)
    /\ clip_returned' = "list"
    /\ clip_pc' = "done"
    /\ UNCHANGED <<clip_script, clip_mode, clip_mosaics, clip_todo, clip_idx, clipped_bands,
                   failed_bands, warp_calls, clip_outcomes>>
    /\ UnchangedExcept("clip")

NextClip ==
    \/ ClipGroundTruth
    \/ ClipIndividualBand
    \/ ClipIndividualReturn
    \/ BatchClipFile
    \/ BatchClipReturn

SpecClip == InitClip /\ [][NextClip]_vars

\* C17: whenever a mode-1 clip function of any of the four scripts (ground
\* truth, Landsat-8, Sentinel-2, AlphaEarth) calls gdal.Warp, the options are
\* the same set: GTiff, cutline = the script's boundary file, cropToCutline
\* true, dstNodata 0, resampleAlg near, xRes = yRes = 30, targetAlignedPixels
\* false and the seven creation options.
C17_Mode1OptionsIdentical ==
    clip_mode = 1 =>
      \A options \in warp_calls :
        options = [format |-> "GTiff",
                   cutlineDSName |-> alberta_gpkg(clip_script),
                   cropToCutline |-> TRUE,
                   dstNodata |-> 0,
                   resampleAlg |-> "near",
                   creationOptions |-> <<"COMPRESS=LZW", "PREDICTOR=2", "TILED=YES",
                                         "BLOCKXSIZE=256", "BLOCKYSIZE=256", "BIGTIFF=YES",
                                         "NUM_THREADS=ALL_CPUS">>,
                   xRes |-> 30,
                   yRes |-> 30,
                   targetAlignedPixels |-> FALSE]

\* the AlphaEarth script has clipped its last band in mode 1
C17_Witness ==
    /\ clip_script = "alphaearth" /\ clip_mode = 1 /\ clip_pc = "done"
    /\ warp_calls # {}
    /\ Len(clipped_bands) > 0
    /\ clipped_bands[Len(clipped_bands)] = "A63"

\* C18: whenever the batch mode (mode 2) of the Landsat-8 or of the
\* Sentinel-2 clipping tool calls gdal.Warp, targetAlignedPixels is true, no
\* resampleAlg is given, and every other option has its mode-1 value.
C18_BatchModeAlignsPixels ==
    (clip_mode = 2 /\ clip_script \in {"landsat8", "sentinel2"}) =>
      \A options \in warp_calls :
        /\ options.targetAlignedPixels = TRUE
        /\ "resampleAlg" \notin DOMAIN options
        /\ \A keyword \in DOMAIN WarpOptions(clip_script, 1) \ {"resampleAlg", "targetAlignedPixels"} :
             /\ keyword \in DOMAIN options
             /\ options[keyword] = WarpOptions(clip_script, 1)[keyword]

\* how often band b is recorded in clipped_bands and in failed_bands
TimesRecorded(b) ==
    Cardinality({k \in DOMAIN clipped_bands : clipped_bands[k] = b})
      + Cardinality({k \in DOMAIN failed_bands : failed_bands[k][1] = b})

\* C19: in clip_individual_bands (Landsat-8, Sentinel-2, AlphaEarth) every
\* band the loop has passed was attempted and is recorded exactly once: in
\* the clipped list when the warp left an output file, in the failed list
\* with "Input file not found" when its mosaic is absent, with "Output file
\* creation failed" when the warp left no file, with the exception message
\* when gdal raised; bands the loop has not reached are not recorded, and the
\* function returns only after the loop has passed every band of the list.
C19_EveryBandRecordedOnce ==
    (clip_mode = 1 /\ clip_script \in {"landsat8", "sentinel2", "alphaearth"}) =>
      /\ Len(clip_outcomes) = clip_idx
      /\ clip_pc = "done" => clip_idx = Len(ClipBands(clip_script))
      /\ \A k \in 1..Len(ClipBands(clip_script)) :
           LET b == ClipBands(clip_script)[k]
           IN  IF k > clip_idx THEN TimesRecorded(b) = 0
               ELSE /\ TimesRecorded(b) = 1
                    /\ (b \notin clip_mosaics) <=> (clip_outcomes[k] = "not_found")
                    /\ CASE clip_outcomes[k] = "ok" ->
                              b \in SeqRange(clipped_bands)
                         [] clip_outcomes[k] = "not_found" ->
                              <<b, "Input file not found">> \in SeqRange(failed_bands)
                         [] clip_outcomes[k] = "no_output" ->
                              <<b, "Output file creation failed">> \in SeqRange(failed_bands)
                         [] clip_outcomes[k] = "raised" ->
                              <<b, ExceptionMessage>> \in SeqRange(failed_bands)

\* a Sentinel-2 run has returned in which a band without input mosaic was
\* followed by a band whose warp left no file and by bands that were clipped
C19_Witness ==
    /\ clip_script = "sentinel2" /\ clip_mode = 1 /\ clip_pc = "done"
    /\ \E i, j, k \in DOMAIN clip_outcomes :
         /\ i < j /\ j < k
         /\ clip_outcomes[i] = "not_found"
         /\ clip_outcomes[j] = "no_output"
         /\ clip_outcomes[k] = "ok"
         /\ clip_todo[k] \in SeqRange(clipped_bands)

(***************************************************************************)
(* Stacking of the clipped bands (stack_clipped_Landsat8_30m_images_03.py, *)
(* stack_clipped_S2_30m_images_03.py,                                      *)
(* stack_clipped_AlphaEarth_30m_images_03.py)                              *)
(***************************************************************************)

StackScripts == {"landsat8", "sentinel2", "alphaearth"}

\* landsat_bands, sentinel_bands, alphaearth_bands of the stack scripts
StackBands(script) ==
    CASE script = "landsat8" -> <<"SR_B2", "SR_B3", "SR_B4", "SR_B5", "SR_B6", "SR_B7">>
      [] script = "sentinel2" -> <<"B2", "B3", "B4", "B8", "B5", "B6", "B7", "B8A", "B11", "B12">>
      [] script = "alphaearth" -> alphaearth_bands

\* the number the script compares len(band_files) with
ExpectedBands(script) ==
    CASE script = "landsat8" -> 6
      [] script = "sentinel2" -> 10
      [] script = "alphaearth" -> 64

\* how many clipped bands of the script may be missing
MissingBudget(script) == IF script = "alphaearth" THEN 1 ELSE MaxMissingBands

\* a function that went on to build the stack whatever it had collected
StacksWhateverFound(missing, found, expected) == TRUE

\* the two tests between the collecting loop and the try block
StacksAllFound(missing, found, expected) == missing = <<>> /\ Len(found) = expected

InitStack ==
    /\ IdleExcept("stack")
    /\ stack_script \in StackScripts
    /\ \E missing \in UpToBands(StackBands(stack_script), MissingBudget(stack_script)) :
         stack_clipped = SeqRange(StackBands(stack_script)) \ missing
    /\ stack_idx = 0
    /\ band_files = <<>>
    /\ missing_bands = <<>>
    /\ vrt_inputs = <<>>
    /\ stack_created = {}
    /\ stack_on_disk \in SUBSET {"vrt", "output"}
    /\ stack_returned = "none"
    /\ stack_pc = "collect"

\* one pass of the loop that collects the band file paths
StackCollectBand ==
    /\ stack_pc = "collect"
    /\ stack_idx < Len(StackBands(stack_script))
    /\ \E band \in {StackBands(stack_script)[stack_idx + 1]} :
         IF band \in stack_clipped
         THEN band_files' = Append(band_files, band) /\ UNCHANGED missing_bands
         ELSE missing_bands' = Append(missing_bands, band) /\ UNCHANGED band_files
    /\ stack_idx' = stack_idx + 1
    /\ UNCHANGED <<stack_script, stack_clipped, vrt_inputs, stack_created, stack_on_disk,
                   stack_returned, stack_pc>>
    /\ UnchangedExcept("stack")

\* `if missing_bands: return False` and `if len(band_files) != N: return False`
StackCheck ==
    /\ stack_pc = "collect"
    /\ stack_idx = Len(StackBands(stack_script))
    /\ IF StacksAllFound(missing_bands, band_files, ExpectedBands(stack_script))
       THEN stack_pc' = "vrt" /\ UNCHANGED stack_returned
       ELSE stack_pc' = "done" /\ stack_returned' = "False"
    /\ UNCHANGED <<stack_script, stack_clipped, stack_idx, band_files, missing_bands,
                   vrt_inputs, stack_created, stack_on_disk>>
    /\ UnchangedExcept("stack")

\* gdal.BuildVRT(vrt_file, band_files, ...): it writes the VRT, or returns
\* None, or raises
StackBuildVRT ==
    /\ stack_pc = "vrt"
    /\ vrt_inputs' = band_files
    /\ \E outcome \in {"ok", "none", "raised"} :
         IF outcome = "ok"
         THEN /\ stack_created' = stack_created \cup {"vrt"}
              /\ stack_on_disk' = stack_on_disk \cup {"vrt"}
              /\ stack_pc' = "translate"
              /\ UNCHANGED stack_returned
         ELSE /\ stack_pc' = "done"
              /\ stack_returned' = "False"
              /\ UNCHANGED <<stack_created, stack_on_disk>>
    /\ UNCHANGED <<stack_script, stack_clipped, stack_idx, band_files, missing_bands>>
    /\ UnchangedExcept("stack")

\* gdal.Translate(output_file, vrt_file, ...) and the removal of the VRT
\* that follows it; a failed translation leaves the VRT behind
StackTranslate ==
    /\ stack_pc = "translate"
    /\ \E outcome \in {"ok", "none", "raised"} :
         IF outcome = "ok"
         THEN /\ stack_created' = stack_created \cup {"output"}
              /\ stack_on_disk' = (stack_on_disk \cup {"output"}) \ {"vrt"}
              /\ stack_pc' = "verify"
              /\ UNCHANGED stack_returned
         ELSE /\ stack_pc' = "done"
              /\ stack_returned' = "False"
              /\ UNCHANGED <<stack_created, stack_on_disk>>
    /\ UNCHANGED <<stack_script, stack_clipped, stack_idx, band_files, missing_bands,
                   vrt_inputs>>
    /\ UnchangedExcept("stack")

\* gdal.Open(output_file) and the report
StackVerify ==
    /\ stack_pc = "verify"
    /\ \E opened \in BOOLEAN :
         stack_returned' = IF opened THEN "True" ELSE "False"
    /\ stack_pc' = "done"
    /\ UNCHANGED <<stack_script, stack_clipped, stack_idx, band_files, missing_bands,
                   vrt_inputs, stack_created, stack_on_disk>>
    /\ UnchangedExcept("stack")

NextStack ==
    \/ StackCollectBand
    \/ StackCheck
    \/ StackBuildVRT
    \/ StackTranslate
    \/ StackVerify

SpecStack == InitStack /\ [][NextStack]_vars

\* C20: when a clipped band file of the sensor is missing (of the 6 of
\* Landsat-8, the 10 of Sentinel-2, the 64 of AlphaEarth) the stacking
\* function never calls gdal.BuildVRT, creates neither the temporary VRT nor
\* the stacked file, and returns False; when all are present the list given
\* to gdal.BuildVRT is the sensor's band list in its order, for Sentinel-2
\* B2, B3, B4, B8, B5, B6, B7, B8A, B11, B12.
C20_NoStackWithMissingBand ==
    LET expected ==
          CASE stack_script = "landsat8" -> <<"SR_B2", "SR_B3", "SR_B4", "SR_B5", "SR_B6", "SR_B7">>
            [] stack_script = "sentinel2" -> <<"B2", "B3", "B4", "B8", "B5", "B6", "B7", "B8A", "B11", "B12">>
            [] stack_script = "alphaearth" -> AlphaEarthBands(64)
    IN  stack_script \in StackScripts =>
          IF \E k \in DOMAIN expected : expected[k] \notin stack_clipped
          THEN /\ stack_created = {}
               /\ vrt_inputs = <<>>
               /\ stack_pc \in {"collect", "done"}
               /\ stack_pc = "done" => stack_returned = "False"
               /\ stack_returned # "True"
          ELSE /\ stack_pc \notin {"collect", "vrt"} => vrt_inputs = expected
               /\ stack_created # {} => vrt_inputs = expected
               /\ Len(expected) \in {6, 10, 64}

\* a Sentinel-2 stack without B8 has returned, and no file was created
C20_Witness ==
    /\ stack_script = "sentinel2"
    /\ "B8" \notin stack_clipped
    /\ stack_pc = "done"
    /\ stack_returned = "False"
    /\ missing_bands = <<"B8">>
    /\ Len(band_files) = 9

\* a Sentinel-2 stack with all ten bands has been written
C20_WitnessStacked ==
    /\ stack_script = "sentinel2"
    /\ stack_returned = "True"
    /\ "output" \in stack_created
    /\ vrt_inputs[4] = "B8"

\* C22: when a band-stacking function has returned, the temp_stack.vrt it
\* built is no longer on disk, whatever the path it returned on (translation
\* returning nothing or raising included).
C22_StackRemovesItsVrt ==
    (stack_pc = "done" /\ "vrt" \in stack_created) => "vrt" \notin stack_on_disk

(***************************************************************************)
(* Further properties of the filter, the abundance maps, the extraction    *)
(* and the stages of main                                                  *)
(***************************************************************************)

C28_AbundanceNeverFails ==
    /\ ab_pc # "error"
    /\ ab_pc = "batches" =>
         \A k \in 0..(AbNumBatches - 1) :
           LET num_batches_x == NumBatches(ColsOf(lc_filtered), ab_batch_size)
               y_start == (k \div num_batches_x) * ab_batch_size
               x_start == (k % num_batches_x) * ab_batch_size
           IN  /\ y_start \div AbStride
                    <= Min(AbOutRows, ((Min(y_start + ab_batch_size, RowsOf(lc_filtered))) \div AbStride) + 1)
               /\ x_start \div AbStride
                    <= Min(AbOutCols, ((Min(x_start + ab_batch_size, ColsOf(lc_filtered))) \div AbStride) + 1)

\* C29: once the split's manifest is written, every image patch file
\* class_<id>_patch_<n>.tif of any sensor has a label patch of the same name
\* in labels/filtered and in labels/unfiltered, and the label count of the
\* manifest is the number of label patches written.
C29_LabelsMatchImages ==
    ex_pc = "done" =>
        /\ \A f \in image_patches : \A kind \in {"filtered", "unfiltered"} :
               \E g \in label_patches :
                   g.kind = kind /\ g.class_id = f.class_id /\ g.patch_idx = f.patch_idx
        /\ \A kind \in {"filtered", "unfiltered"} :
               manifest.total_labels = Cardinality({g \in label_patches : g.kind = kind})

\* C27: whenever main skips remapping, filtering or the abundance
\* computation of a class because the output file exists, that file holds
\* the complete result of the stage, also after an interrupted earlier run.
C27_SkippedOutputsComplete ==
    [][/\ (main_pc = "remap" /\ main_pc' = StageAfter("remap"))
            => disk["LC_remapped.tif"].status = "complete"
       /\ (main_pc = "filter" /\ main_pc' = StageAfter("filter"))
            => disk["LC_filtered.tif"].status = "complete"
       /\ (main_pc = "abundance_class" /\ main_pc' = "abundance_class"
             /\ main_class_idx' = main_class_idx + 1)
            => disk[AbundanceFile(main_classes[main_class_idx])].status = "complete"]_vars

(***************************************************************************)
(* Mosaics of the downloaded tiles, one per band                           *)
(* (merging_tiles_Landsat8_30m_01.py, merging_tiles_S2_30m_01.py,          *)
(* merging_tiles_AlphaEarth_30m_01.py)                                     *)
(***************************************************************************)

MosaicScripts == {"landsat8", "sentinel2", "alphaearth"}

\* LANDSAT_BANDS, SENTINEL_BANDS, ALPHAEARTH_BANDS
MosaicBands(script) ==
    CASE script = "landsat8" -> <<"SR_B2", "SR_B3", "SR_B4", "SR_B5", "SR_B6", "SR_B7">>
      [] script = "sentinel2" -> <<"B2", "B3", "B4", "B5", "B6", "B7", "B8", "B8A", "B11", "B12">>
      [] script = "alphaearth" -> alphaearth_bands

\* the number of bands of one script that may meet trouble
MosaicBudget(script) == IF script = "alphaearth" THEN 1 ELSE MaxMosaicTroubles

\* the ways out of the mosaic function:
\*   no_tiles        no pattern matches a tile: return None
\*   raised          os.makedirs raises, outside the try block
\*   vrt_none        gdal.BuildVRT returns None: return None
\*   reopen_failed   gdal.Open(vrt_path) returns nothing
\*   translate_none  gdal.Translate / gdal.Warp returns None
\*   exception       an exception in the try block before the mosaic is written
\*   exception_after an exception in the try block after the mosaic is written
\*   no_output       everything returned, but the mosaic file is not there
\*   success         the mosaic path is returned
MosaicExits ==
    {"no_tiles", "raised", "vrt_none", "reopen_failed", "translate_none",
     "exception", "exception_after", "no_output", "success"}

\* the ways out on which gdal.BuildVRT has written the temporary VRT
VrtBuilt(exit) ==
    exit \in {"reopen_failed", "translate_none", "exception_after", "no_output", "success"}

\* a function that removed its VRT only before returning the mosaic path
RemovesVrtOnSuccess(exit) == exit = "success"

\* the ways out that pass an os.remove(vrt_path)
RemovesVrt(exit) ==
    exit \in {"reopen_failed", "translate_none", "exception", "exception_after",
              "no_output", "success"}

\* the ways out on which the mosaic file has been written
MosaicWritten(exit) == exit \in {"exception_after", "success"}

\* the ways out that come after os.makedirs(output_dir, exist_ok=True)
MakesOutputDir(exit) == exit \notin {"no_tiles", "raised"}

\* verify_all_tiles_crs: (False, "No tiles found") unless the main pattern
\* finds tiles, (False, ...) when their CRS is not the expected one
VerifyMessage(tiles, crs_ok) ==
    IF tiles # "main" THEN "No tiles found"
    ELSE IF crs_ok THEN "All tiles OK" ELSE "Tiles not in the expected CRS"

InitMosaic ==
    /\ IdleExcept("mosaic")
    /\ mo_script \in MosaicScripts
    /\ \E missing \in UpToBands(MosaicBands(mo_script), MosaicBudget(mo_script)) :
         /\ mo_folders = SeqRange(MosaicBands(mo_script)) \ missing
         /\ mo_troubles = Cardinality(missing)
    /\ mo_downloaded \in BOOLEAN
    /\ mo_outdir \in BOOLEAN
    /\ mo_vrt = {}
    /\ mo_mosaic = [b \in SeqRange(MosaicBands(mo_script)) |-> 0]
    /\ mo_summary = 0
    /\ mo_run = 1
    /\ mo_bands = <<>> /\ mo_idx = 0
    /\ successful_bands = <<>> /\ mosaic_failed_bands = <<>>
    /\ mo_passed = <<>> /\ mo_last = NoBand
    /\ mo_pc = "start"

\* get_all_bands and the test `if not bands: return`
MosaicGetAllBands ==
    /\ mo_pc = "start"
    /\ mo_bands' = SeqFilter(MosaicBands(mo_script), mo_folders)
    /\ mo_pc' = IF mo_bands' = <<>> THEN "returned" ELSE "bands"
    /\ UNCHANGED <<mo_script, mo_folders, mo_downloaded, mo_outdir, mo_vrt, mo_mosaic,
                   mo_summary, mo_run, mo_idx, successful_bands, mosaic_failed_bands,
                   mo_passed, mo_last, mo_troubles>>
    /\ UnchangedExcept("mosaic")

\* one turn of the band loop: the CRS verification, then the mosaic function
MosaicBand ==
    /\ mo_pc = "bands"
    /\ mo_idx < Len(mo_bands)
    /\ \E band \in {mo_bands[mo_idx + 1]} :
       \E tiles \in (IF mo_downloaded THEN {"main", "alt", "none"} ELSE {"none"}) :
       \E crs_ok \in (IF tiles = "main" THEN BOOLEAN ELSE {FALSE}) :
       \E exit \in (IF tiles = "none" THEN {"no_tiles"} ELSE MosaicExits \ {"no_tiles"}) :
       \E troubled \in {mo_downloaded /\ ~(tiles = "main" /\ crs_ok /\ exit = "success")} :
       \E verified \in {tiles = "main" /\ crs_ok} :
       \E after_verify \in {IF verified THEN mosaic_failed_bands
                            ELSE Append(mosaic_failed_bands,
                                        <<band, "CRS issue", VerifyMessage(tiles, crs_ok)>>)} :
         /\ troubled => mo_troubles < MosaicBudget(mo_script)
         /\ mo_troubles' = IF troubled THEN mo_troubles + 1 ELSE mo_troubles
         /\ mo_passed' = Append(mo_passed, band)
         /\ mo_outdir' = (mo_outdir \/ MakesOutputDir(exit))
         /\ mo_vrt' = IF RemovesVrt(exit) THEN mo_vrt \ {band}
                      ELSE IF VrtBuilt(exit) THEN mo_vrt \cup {band}
                      ELSE mo_vrt
         /\ mo_mosaic' = IF MosaicWritten(exit) THEN [mo_mosaic EXCEPT ![band] = mo_run]
                         ELSE mo_mosaic
         /\ successful_bands' = IF exit = "success" THEN Append(successful_bands, band)
                                ELSE successful_bands
         /\ mosaic_failed_bands' =
              IF exit = "success" THEN after_verify
              ELSE IF exit = "raised" THEN Append(after_verify, <<band, ExceptionMessage, "">>)
              ELSE Append(after_verify, <<band, "Mosaic creation failed", "">>)
         /\ mo_last' = [band |-> band, verified |-> verified, exit |-> exit]
    /\ mo_idx' = mo_idx + 1
    /\ UNCHANGED <<mo_script, mo_folders, mo_downloaded, mo_summary, mo_run, mo_bands, mo_pc>>
    /\ UnchangedExcept("mosaic")

\* after the loop: open(summary_path, 'w') in output_dir
MosaicSummary ==
    /\ mo_pc = "bands"
    /\ mo_idx = Len(mo_bands)
    /\ IF mo_outdir
       THEN mo_summary' = mo_run /\ mo_pc' = "done"
       ELSE mo_summary' = mo_summary /\ mo_pc' = "crashed"
    /\ UNCHANGED <<mo_script, mo_folders, mo_downloaded, mo_outdir, mo_vrt, mo_mosaic,
                   mo_run, mo_bands, mo_idx, successful_bands, mosaic_failed_bands,
                   mo_passed, mo_last, mo_troubles>>
    /\ UnchangedExcept("mosaic")

\* the script is started again on the same folders
MosaicRunAgain ==
    /\ mo_pc \in {"done", "returned", "crashed"}
    /\ mo_run < MaxRuns
    /\ mo_run' = mo_run + 1
    /\ mo_bands' = <<>> /\ mo_idx' = 0
    /\ successful_bands' = <<>> /\ mosaic_failed_bands' = <<>>
    /\ mo_passed' = <<>> /\ mo_last' = NoBand
    /\ mo_pc' = "start"
    /\ UNCHANGED <<mo_script, mo_folders, mo_downloaded, mo_outdir, mo_vrt, mo_mosaic,
                   mo_summary, mo_troubles>>
    /\ UnchangedExcept("mosaic")

NextMosaic == MosaicGetAllBands \/ MosaicBand \/ MosaicSummary \/ MosaicRunAgain

SpecMosaic == InitMosaic /\ [][NextMosaic]_vars

MosaicTypeOK == mo_pc \in {"start", "bands", "done", "returned", "crashed"}

\* the bands named in a result list
BandsIn(list) == {list[i][1] : i \in DOMAIN list}

\* the elements of a list of band names
NamesIn(list) == {list[i] : i \in DOMAIN list}

C23_EveryBandTriedAndSummaryWritten ==
    /\ mo_pc = "bands" => mo_passed = SubSeq(mo_bands, 1, mo_idx)
    /\ mo_pc \in {"done", "crashed"} => (mo_passed = mo_bands /\ mo_summary = mo_run)

\* C25: a mosaic file that exists is left as it is by every later step of
\* the mosaic script, a repeated run included.
C25_ExistingMosaicUntouched ==
    [][\A b \in DOMAIN mo_mosaic : mo_mosaic[b] # 0 => mo_mosaic'[b] = mo_mosaic[b]]_vars

\* C30: the bands handled so far are split between successful_bands and
\* failed_bands: the two lengths add up to the number of bands handled and
\* no band is in both lists.
C30_EveryBandInOneList ==
    mo_pc \in {"bands", "done", "crashed"} =>
        /\ Len(successful_bands) + Len(mosaic_failed_bands) = mo_idx
        /\ NamesIn(successful_bands) \cap BandsIn(mosaic_failed_bands) = {}

(***************************************************************************)
(* Two runs of the mosaic scripts at the same time: each run builds the    *)
(* temporary VRT of its band, translates it and removes it                 *)
(***************************************************************************)

Runs == {1, 2}

\* the other of the two runs
OtherRun(r) == 3 - r

\* output_dir of a mosaic script (line 12 of each), by its last folder
MosaicOutputDir(script) ==
    CASE script = "landsat8" -> "Alberta_2020_NAD83_StatsCan_L8_30m_Mosaics_EPSG_3979"
      [] script = "sentinel2" -> "Alberta_2020_NAD83_StatsCan_Sentinel2_30m_Mosaics_EPSG_3979"
      [] script = "alphaearth" -> "Alberta_2020_NAD83_StatsCan_AlphaEarth_30m_Mosaics_EPSG_3979"

\* the text before the band name in the VRT's file name
TempPrefix(script) ==
    CASE script = "landsat8" -> "temp_L8_"
      [] script = "sentinel2" -> "temp_S2_"
      [] script = "alphaearth" -> "temp_AlphaEarth_"

\* the text after the band name
TempSuffix(script) == IF script = "alphaearth" THEN "_4326.vrt" ELSE ".vrt"

\* a temporary file named without the band
VrtPathWithoutBand(script, band) ==
    <<MosaicOutputDir(script), TempPrefix(script), "", TempSuffix(script)>>

\* vrt_path = os.path.join(output_dir, f'temp_L8_{band_name}.vrt'): the
\* directory and the three parts of the file name
VrtPath(script, band) ==
    <<MosaicOutputDir(script), TempPrefix(script), band, TempSuffix(script)>>

\* the bands the two runs choose from
RaceBands(script) == SeqRange(SubSeq(MosaicBands(script), 1, MaxRaceBands))

RacePaths == {VrtPath(s, b) : s \in MosaicScripts, b \in UNION {RaceBands(t) : t \in MosaicScripts}}

\* the VRT path of a run
PathOf(r) == VrtPath(race_sensor[r], race_band[r])

\* the other run has built its VRT at the same path and not translated it yet
Disturbs(r) ==
    /\ race_pc[OtherRun(r)] = "built"
    /\ PathOf(OtherRun(r)) = PathOf(r)

InitRace ==
    /\ IdleExcept("race")
    /\ race_sensor \in [Runs -> MosaicScripts]
    /\ race_band \in [Runs -> UNION {RaceBands(t) : t \in MosaicScripts}]
    /\ \A r \in Runs : race_band[r] \in RaceBands(race_sensor[r])
    /\ race_pc = [r \in Runs |-> "start"]
    /\ race_vrt = [f \in RacePaths |-> 0]
    /\ race_disturbed = [r \in Runs |-> "no"]

\* gdal.BuildVRT(vrt_path, tile_paths): writes the file, over an existing one
RaceBuildVRT(r) ==
    /\ race_pc[r] = "start"
    /\ race_vrt' = [race_vrt EXCEPT ![PathOf(r)] = r]
    /\ race_disturbed' = IF Disturbs(r)
                         THEN [race_disturbed EXCEPT ![OtherRun(r)] = "rewritten"]
                         ELSE race_disturbed
    /\ race_pc' = [race_pc EXCEPT ![r] = "built"]
    /\ UNCHANGED <<race_sensor, race_band>>
    /\ UnchangedExcept("race")

\* gdal.Open(vrt_path) and gdal.Translate / gdal.Warp of it: fails when the
\* file is not there any more
RaceTranslate(r) ==
    /\ race_pc[r] = "built"
    /\ race_pc' = [race_pc EXCEPT ![r] = IF race_vrt[PathOf(r)] = 0 THEN "failed"
                                         ELSE "translated"]
    /\ UNCHANGED <<race_sensor, race_band, race_vrt, race_disturbed>>
    /\ UnchangedExcept("race")

\* if os.path.exists(vrt_path): os.remove(vrt_path)
RaceRemoveVRT(r) ==
    /\ race_pc[r] = "translated"
    /\ race_vrt' = [race_vrt EXCEPT ![PathOf(r)] = 0]
    /\ race_disturbed' = IF Disturbs(r) /\ race_vrt[PathOf(r)] # 0
                         THEN [race_disturbed EXCEPT ![OtherRun(r)] = "deleted"]
                         ELSE race_disturbed
    /\ race_pc' = [race_pc EXCEPT ![r] = "done"]
    /\ UNCHANGED <<race_sensor, race_band>>
    /\ UnchangedExcept("race")

NextRace == \E r \in Runs : RaceBuildVRT(r) \/ RaceTranslate(r) \/ RaceRemoveVRT(r)

SpecRace == InitRace /\ [][NextRace]_vars

\* C26: a run's temporary VRT is rewritten or deleted by the other run
\* before it was translated only when both runs work on the same band of the
\* same script; runs on different bands or different scripts use different
\* VRT paths.
C26_OnlySameBandCollides ==
    /\ \A r \in DOMAIN race_disturbed :
         race_disturbed[r] # "no" =>
             /\ race_sensor[1] = race_sensor[2]
             /\ race_band[1] = race_band[2]
    /\ (race_sensor # <<>> /\ (race_sensor[1] # race_sensor[2] \/ race_band[1] # race_band[2]))
           => PathOf(1) # PathOf(2)

\* two runs on the same band: the second has deleted the VRT the first had
\* built and not yet translated, and the first run's translation has failed
C26_Witness ==
    /\ race_sensor # <<>>
    /\ race_sensor[1] = race_sensor[2] /\ race_band[1] = race_band[2]
    /\ race_disturbed[1] = "deleted"
    /\ race_pc[1] = "failed"

\* two runs on the same band: one has rewritten the VRT of the other
C26_WitnessRewritten ==
    /\ race_sensor # <<>>
    /\ race_disturbed[2] = "rewritten"

====
